---- MODULE Spec2Model ----
(***************************************************************************)
(* Tolerant, path-tracking decoding of self-describing documents           *)
(* (getsentry/rust-sentry-types, src/protocol):                            *)
(*   - unexpected.rs : the shape classifier UnexpectedType                 *)
(*   - annotated.rs  : Annotated<T>, Maybe<T> and the example schema       *)
(*   - canonical.rs  : the earlier Annotated<T> draft                      *)
(*   - paths.rs      : the path-tracking Deserializer middleware           *)
(***************************************************************************)
EXTENDS Integers, Sequences, FiniteSets, TLC

VARIABLES
    doc,        \* Spec: the document handed to serde_json::from_str
    pc,         \* Spec: "input" | "annotated" | "canonical"
    out,        \* Spec: the Result the decode returned
    toks,       \* SpecClassify: the decode events of the underlying decoder
    pos,        \* SpecClassify: the underlying decoder's cursor (next event)
    stack,      \* SpecClassify: the open visit_* calls of the classifier
    result,     \* SpecClassify: what UnexpectedType::deserialize returned
    cur,        \* SpecPaths: the path of the Deserializer at the cursor
    log,        \* SpecPaths: every value decoded so far, with its path
    reqs        \* SpecPaths: every next_element_seed request so far

vars == <<doc, pc, out, toks, pos, stack, result, cur, log, reqs>>
annVars == <<doc, pc, out>>
pathVars == <<cur, log, reqs>>
clsVars == <<toks, pos, stack, result, pathVars>>

----------------------------------------------------------------------------
(* Documents: the values a self-describing format presents.  A node's kind *)
(* is the visit_* event the decoder raises for it (for a buffered serde    *)
(* Content: its variant).                                                  *)

Leaf(kind) == [k |-> kind, s |-> "", items |-> <<>>]
Str(text) == [k |-> "str", s |-> text, items |-> <<>>]
SeqOf(elems) == [k |-> "seq", s |-> "", items |-> elems]
Entry(key, val) == [k |-> "entry", s |-> "", items |-> <<key, val>>]
MapOf(entries) == [k |-> "map", s |-> "", items |-> entries]
SomeOf(v) == [k |-> "some", s |-> "", items |-> <<v>>]
NewtypeOf(v) == [k |-> "newtype", s |-> "", items |-> <<v>>]
Field(name, val) == Entry(Str(name), val)

(* An enum event for a target that decodes an enum: shape is the kind of   *)
(* the variant ("unit", "newtype", "tuple", "struct"), payload its content *)
(* (none for a unit variant).  Leaf("enum") is an enum event for a target  *)
(* that does not decode one.                                               *)
VariantOf(shape, payload) == [k |-> "enum", s |-> shape, items |-> payload]

Ok(x) == [ok |-> TRUE, v |-> x]
Err(msg) == [ok |-> FALSE, v |-> msg]

----------------------------------------------------------------------------
(* unexpected.rs: UnexpectedVisitor.  One line per visit_* method; the     *)
(* methods the impl does not override keep serde's provided bodies         *)
(* (visit_char forwards to visit_str, visit_enum rejects the input).       *)

UnexpectedVisitor_visit_f64_Float == Ok("float")

UnexpectedVisitor_visit_f64 == Ok("integer")

UnexpectedVisitor_visit_enum == Err("invalid type: enum, expected anything at all")

UnexpectedVisitor_visit(kind) ==
    CASE kind = "bool" -> Ok("boolean")
      [] kind = "i64" -> Ok("integer")
      [] kind = "u64" -> Ok("integer")
      [] kind = "f64" -> UnexpectedVisitor_visit_f64
      [] kind = "char" -> Ok("string")
      [] kind = "str" -> Ok("string")
      [] kind = "none" -> Ok("null")
      [] kind = "unit" -> Ok("null")
      [] kind = "bytes" -> Ok("bytes")
      [] kind = "enum" -> UnexpectedVisitor_visit_enum
      [] kind = "seq" -> Ok("array")
      [] kind = "map" -> Ok("object")
      [] OTHER -> Err("decoder error")

(* UnexpectedType::deserialize over a whole value: deserialize_any, then   *)
(* the visit_* method of the value's kind.  visit_some and                 *)
(* visit_newtype_struct classify the payload; visit_seq and visit_map      *)
(* classify every child (`?` returns the first error) before they answer.  *)
RECURSIVE UnexpectedType_deserialize(_)
RECURSIVE Gobble(_, _)
Gobble(elems, i) ==
    IF i > Len(elems) THEN Ok("")
    ELSE LET r == UnexpectedType_deserialize(elems[i])
         IN IF r.ok THEN Gobble(elems, i + 1) ELSE r

UnexpectedType_deserialize(v) ==
    CASE v.k \in {"some", "newtype"} -> UnexpectedType_deserialize(v.items[1])
      [] v.k = "seq" ->
            LET r == Gobble(v.items, 1)
            IN IF r.ok THEN UnexpectedVisitor_visit("seq") ELSE r
      [] v.k = "map" ->
            LET r == Gobble(v.items, 1)
            IN IF r.ok THEN UnexpectedVisitor_visit("map") ELSE r
      [] v.k = "entry" ->
            LET r == UnexpectedType_deserialize(v.items[1])
            IN IF r.ok THEN UnexpectedType_deserialize(v.items[2]) ELSE r
      [] OTHER -> UnexpectedVisitor_visit(v.k)

----------------------------------------------------------------------------
(* annotated.rs: ValueMeta, Annotated<T>, Maybe<T>.                        *)

ValueMeta_default == [errors |-> <<>>, original_length |-> <<>>]

Annotated_error_NoMessage(message) ==
    [value |-> <<>>, meta |-> [errors |-> <<>>, original_length |-> <<>>]]

Annotated_error(message) ==
    [value |-> <<>>,
     meta |-> [errors |-> <<message>>, original_length |-> <<>>]]

Annotated_from_Dropped(value) == [value |-> <<>>, meta |-> ValueMeta_default]

Annotated_from_Marked(value) ==
    [value |-> <<value>>,
     meta |-> [errors |-> <<"unexpected value">>, original_length |-> <<>>]]

Annotated_from(value) == [value |-> <<value>>, meta |-> ValueMeta_default]

Annotated_default == [value |-> <<>>, meta |-> ValueMeta_default]

Annotated_from_Maybe_Fixed(maybe) ==
    IF maybe.variant = "Valid"
    THEN Annotated_from(maybe.x)
    ELSE Annotated_error("unexpected value")

Annotated_from_Maybe(maybe) ==
    IF maybe.variant = "Valid"
    THEN Annotated_from(maybe.x)
    ELSE Annotated_error("unexpected " \o maybe.x)

(* The strings the leaf types of the example schema accept. *)
UuidText == "864ee97977bf43ac96d74f7486d138ab"
TimestampText == "2018-02-08T12:52:12Z"
OtherText == "foo"

StructTypes == {"Event", "Breadcrumb", "Values"}

(* The fields of the example schema, in declaration order: the name in the *)
(* document, the field of the struct, its type, and whether                *)
(* #[serde(default)] fills it when the document has no such entry.         *)
Fields(T) ==
    CASE T = "Event" ->
            << [wire |-> "event_id", name |-> "id",
                ty |-> "Annotated<Option<Uuid>>", default |-> TRUE],
               [wire |-> "breadcrumbs", name |-> "breadcrumbs",
                ty |-> "Annotated<Values>", default |-> TRUE] >>
      [] T = "Breadcrumb" ->
            << [wire |-> "timestamp", name |-> "timestamp",
                ty |-> "Annotated<DateTime>", default |-> TRUE],
               [wire |-> "ty", name |-> "ty",
                ty |-> "Annotated<String>", default |-> TRUE],
               [wire |-> "category", name |-> "category",
                ty |-> "Annotated<Option<String>>", default |-> TRUE] >>
      [] T = "Values" ->
            << [wire |-> "values", name |-> "values",
                ty |-> "Vec<Annotated<Breadcrumb>>", default |-> FALSE] >>

AnnotatedTypes ==
    {"Annotated<Event>", "Annotated<Option<Uuid>>", "Annotated<Values>",
     "Annotated<Breadcrumb>", "Annotated<DateTime>", "Annotated<String>",
     "Annotated<Option<String>>"}

Inner(T) ==
    CASE T = "Annotated<Event>" -> "Event"
      [] T = "Annotated<Option<Uuid>>" -> "Option<Uuid>"
      [] T = "Annotated<Values>" -> "Values"
      [] T = "Annotated<Breadcrumb>" -> "Breadcrumb"
      [] T = "Annotated<DateTime>" -> "DateTime"
      [] T = "Annotated<String>" -> "String"
      [] T = "Annotated<Option<String>>" -> "Option<String>"
      [] T = "Option<Uuid>" -> "Uuid"
      [] T = "Option<String>" -> "String"
      [] T = "Vec<Annotated<Breadcrumb>>" -> "Annotated<Breadcrumb>"

FieldIndex(T, key) ==
    IF \E j \in 1..Len(Fields(T)) : Fields(T)[j].wire = key
    THEN CHOOSE j \in 1..Len(Fields(T)) : Fields(T)[j].wire = key
    ELSE 0

(* The struct a derived visitor builds from the decoded fields. *)
Build(T, acc) ==
    [nm \in {Fields(T)[j].name : j \in 1..Len(Fields(T))} |->
        LET j == CHOOSE i \in 1..Len(Fields(T)) : Fields(T)[i].name = nm
        IN acc[j][1]]

RECURSIVE Deserialize(_, _)
RECURSIVE Maybe_deserialize(_, _)
RECURSIVE Annotated_deserialize(_, _)
RECURSIVE VisitMapStruct(_, _, _, _)
RECURSIVE VisitSeqStruct(_, _, _, _)
RECURSIVE VisitSeqVec(_, _, _, _)

(* #[derive(Deserialize)] #[serde(untagged)] enum Maybe<T>: the input is   *)
(* buffered, Valid(T) is tried on the buffer, then Invalid(UnexpectedType).*)
Maybe_deserialize_Strict(T, v) ==
    LET a == Deserialize(T, v)
    IN IF a.ok
       THEN Ok([variant |-> "Valid", x |-> a.v])
       ELSE Err("data did not match any variant of untagged enum Maybe")

Maybe_deserialize_Reason(T, v) ==
    LET a == Deserialize(T, v)
    IN IF a.ok
       THEN Ok([variant |-> "Valid", x |-> a.v])
       ELSE Ok([variant |-> "Invalid", x |-> a.v])

Maybe_deserialize(T, v) ==
    LET a == Deserialize(T, v)
    IN IF a.ok
       THEN Ok([variant |-> "Valid", x |-> a.v])
       ELSE LET u == UnexpectedType_deserialize(v)
            IN IF u.ok
               THEN Ok([variant |-> "Invalid", x |-> u.v])
               ELSE Err("data did not match any variant of untagged enum Maybe")

Annotated_deserialize_Propagate(T, v) ==
    LET a == Deserialize(T, v)
    IN IF a.ok THEN Ok(Annotated_from(a.v)) ELSE a

(* impl Deserialize for Annotated<T>: Ok(Maybe::deserialize(d)?.into()) *)
Annotated_deserialize(T, v) ==
    LET m == Maybe_deserialize(T, v)
    IN IF m.ok THEN Ok(Annotated_from_Maybe(m.v)) ELSE m

(* A derived struct visitor's visit_map: entries in document order, a      *)
(* known key decodes its value as the field's type, a repeated key is an   *)
(* error, an unknown key is skipped; then the absent fields are filled     *)
(* from their default, or the decode fails with missing_field.             *)
VisitMapStruct(T, entries, i, acc) ==
    IF i > Len(entries)
    THEN IF \E j \in 1..Len(Fields(T)) : acc[j] = <<>> /\ ~Fields(T)[j].default
         THEN Err("missing field")
         ELSE Ok(Build(T, [j \in 1..Len(Fields(T)) |->
                     IF acc[j] = <<>> THEN <<Annotated_default>> ELSE acc[j]]))
    ELSE LET j == FieldIndex(T, entries[i].items[1].s)
         IN IF j = 0
            THEN VisitMapStruct(T, entries, i + 1, acc)
            ELSE IF acc[j] # <<>>
            THEN Err("duplicate field")
            ELSE LET r == Deserialize(Fields(T)[j].ty, entries[i].items[2])
                 IN IF r.ok
                    THEN VisitMapStruct(T, entries, i + 1,
                                        [acc EXCEPT ![j] = <<r.v>>])
                    ELSE r

(* A derived struct visitor's visit_seq: element j is field j; a missing   *)
(* element is filled from the default or fails with invalid_length; the    *)
(* buffered sequence must be used up.                                      *)
VisitSeqStruct(T, elems, j, acc) ==
    IF j > Len(Fields(T))
    THEN IF Len(elems) > Len(Fields(T))
         THEN Err("invalid length")
         ELSE Ok(Build(T, acc))
    ELSE IF j > Len(elems)
    THEN IF Fields(T)[j].default
         THEN VisitSeqStruct(T, elems, j + 1,
                             [acc EXCEPT ![j] = <<Annotated_default>>])
         ELSE Err("invalid length")
    ELSE LET r == Deserialize(Fields(T)[j].ty, elems[j])
         IN IF r.ok
            THEN VisitSeqStruct(T, elems, j + 1, [acc EXCEPT ![j] = <<r.v>>])
            ELSE r

(* Vec<T>'s visit_seq: every element as T, the first error returned. *)
VisitSeqVec(T, elems, i, acc) ==
    IF i > Len(elems) THEN Ok(acc)
    ELSE LET r == Deserialize(T, elems[i])
         IN IF r.ok THEN VisitSeqVec(T, elems, i + 1, Append(acc, r.v)) ELSE r

(* T::deserialize on the buffered input, for the types of the schema. *)
Deserialize(T, v) ==
    CASE T \in AnnotatedTypes -> Annotated_deserialize(Inner(T), v)
      [] T = "String" ->
            IF v.k = "str" THEN Ok(v.s) ELSE Err("invalid type")
      [] T = "Uuid" ->
            IF v.k = "str" /\ v.s = UuidText THEN Ok(v.s)
            ELSE Err("invalid uuid")
      [] T = "DateTime" ->
            IF v.k = "str" /\ v.s = TimestampText THEN Ok(v.s)
            ELSE Err("invalid timestamp")
      [] T \in {"Option<Uuid>", "Option<String>"} ->
            IF v.k \in {"unit", "none"} THEN Ok(<<>>)
            ELSE LET r == Deserialize(Inner(T),
                                      IF v.k = "some" THEN v.items[1] ELSE v)
                 IN IF r.ok THEN Ok(<<r.v>>) ELSE r
      [] T = "Vec<Annotated<Breadcrumb>>" ->
            IF v.k = "seq" THEN VisitSeqVec(Inner(T), v.items, 1, <<>>)
            ELSE Err("invalid type")
      [] T \in StructTypes ->
            IF v.k = "map"
            THEN VisitMapStruct(T, v.items, 1,
                                [j \in 1..Len(Fields(T)) |-> <<>>])
            ELSE IF v.k = "seq"
            THEN VisitSeqStruct(T, v.items, 1,
                                [j \in 1..Len(Fields(T)) |-> <<>>])
            ELSE Err("invalid type")

----------------------------------------------------------------------------
(* canonical.rs: the earlier draft.  Annotated<T> holds a plain T (the     *)
(* default of T when the input is unexpected); Event has the one field     *)
(* event_id, with no #[serde(default)].                                    *)

Canonical_ValueMeta_default ==
    [errors |-> <<>>, annotations |-> <<>>, original_length |-> <<>>]

(* #[serde(untagged)] enum LenientValueHelper<T>, for T = Option<Uuid> *)
LenientValueHelper_deserialize(T, v) ==
    LET a == Deserialize(T, v)
    IN IF a.ok
       THEN Ok([variant |-> "Valid", x |-> a.v])
       ELSE LET u == UnexpectedType_deserialize(v)
            IN IF u.ok
               THEN Ok([variant |-> "UnexpectedType", x |-> u.v])
               ELSE Err("data did not match any variant of untagged enum LenientValueHelper")

Canonical_Annotated_deserialize(T, v) ==
    LET h == LenientValueHelper_deserialize(T, v)
    IN IF ~h.ok THEN h
       ELSE IF h.v.variant = "Valid"
       THEN Ok([value |-> h.v.x, meta |-> Canonical_ValueMeta_default])
       ELSE Ok([value |-> <<>>,
                meta |-> [errors |-> <<"unexpected type " \o h.v.x>>,
                          annotations |-> <<>>,
                          original_length |-> <<>>]])

(* The entries of a map whose key is `key`, in document order. *)
EntriesOf(entries, key) ==
    SelectSeq(entries, LAMBDA e : e.items[1].s = key)

(* #[derive(Deserialize)] struct Event { #[serde(rename = "event_id")] id } *)
Canonical_Event_deserialize(v) ==
    IF v.k = "map"
    THEN LET ids == EntriesOf(v.items, "event_id")
         IN IF Len(ids) = 0 THEN Err("missing field")
            ELSE IF Len(ids) > 1 THEN Err("duplicate field")
            ELSE LET r == Canonical_Annotated_deserialize("Option<Uuid>",
                                                          ids[1].items[2])
                 IN IF r.ok THEN Ok([id |-> r.v]) ELSE r
    ELSE IF v.k = "seq"
    THEN IF Len(v.items) # 1 THEN Err("invalid length")
         ELSE LET r == Canonical_Annotated_deserialize("Option<Uuid>",
                                                       v.items[1])
              IN IF r.ok THEN Ok([id |-> r.v]) ELSE r
    ELSE Err("invalid type")

----------------------------------------------------------------------------
(* The documents of the model: JSON values shaped after the tests of       *)
(* annotated.rs and canonical.rs.                                          *)

MaxValues == 2

Scalars ==
    {Leaf("bool"), Leaf("u64"), Leaf("f64"), Leaf("unit"),
     Str(UuidText), Str(TimestampText), Str(OtherText)}

CrumbDocs ==
    {Leaf("bool"),
     SeqOf(<<>>),
     SeqOf(<<Leaf("u64"), Str(OtherText)>>),
     MapOf(<<>>),
     MapOf(<<Field("timestamp", Str(TimestampText))>>),
     MapOf(<<Field("timestamp", Str(OtherText))>>),
     MapOf(<<Field("ty", Leaf("u64")), Field("other", SeqOf(<<>>))>>),
     MapOf(<<Field("category", Leaf("unit")), Field("ty", Str(OtherText))>>)}

SeqsUpTo(S, n) == UNION {[1..m -> S] : m \in 0..n}

BreadcrumbsDocs ==
    {MapOf(<<Field("values", SeqOf(l))>>) : l \in SeqsUpTo(CrumbDocs, MaxValues)}
    \cup {MapOf(<<>>),
          MapOf(<<Field("values", Leaf("bool"))>>),
          Leaf("u64"),
          SeqOf(<<>>),
          SeqOf(<<SeqOf(<<MapOf(<<>>)>>)>>)}

IdEntries == {<<>>} \cup {<<Field("event_id", x)>> : x \in Scalars}

BreadcrumbsEntries ==
    {<<>>} \cup {<<Field("breadcrumbs", b)>> : b \in BreadcrumbsDocs}

MetadataEntry ==
    Field("metadata",
          MapOf(<<Field("breadcrumbs.values.0",
                        MapOf(<<Field("errors",
                                      SeqOf(<<Str("original error")>>))>>))>>))

Documents ==
    {MapOf(a \o b) : a \in IdEntries, b \in BreadcrumbsEntries}
    \cup {MapOf(b \o a \o <<MetadataEntry>>) :
              a \in IdEntries \ {<<>>},
              b \in {<<Field("breadcrumbs", MapOf(<<Field("values", SeqOf(<<c>>))>>))>> :
                        c \in CrumbDocs}}
    \cup {MapOf(<<Field("event_id", Leaf("u64")),
                  Field("event_id", Str(UuidText))>>)}
    \cup Scalars
    \cup {SeqOf(l) : l \in SeqsUpTo({Leaf("u64"), Str(UuidText)}, MaxValues + 1)}

----------------------------------------------------------------------------
(* Spec: one decode of one document, as the tests of annotated.rs          *)
(* (serde_json::from_str::<Annotated<Event>>) and of canonical.rs          *)
(* (serde_json::from_str::<Event>) do it.                                  *)

InitPathsIdle ==
    /\ cur = <<>>
    /\ log = <<>>
    /\ reqs = <<>>

InitClassifyIdle ==
    /\ toks = <<>>
    /\ pos = 0
    /\ stack = <<>>
    /\ result = <<>>
    /\ InitPathsIdle

Init ==
    /\ doc \in Documents
    /\ pc = "input"
    /\ out = <<>>
    /\ InitClassifyIdle

DecodeAnnotated ==
    /\ pc = "input"
    /\ out' = Deserialize("Annotated<Event>", doc)
    /\ pc' = "annotated"
    /\ UNCHANGED <<doc, clsVars>>

DecodeCanonical ==
    /\ pc = "input"
    /\ out' = Canonical_Event_deserialize(doc)
    /\ pc' = "canonical"
    /\ UNCHANGED <<doc, clsVars>>

Next == DecodeAnnotated \/ DecodeCanonical

Spec == Init /\ [][Next]_vars

----------------------------------------------------------------------------
(* The documents of the tests (annotated.rs, test_foo; canonical.rs,       *)
(* test_event).                                                            *)

ScenarioA ==
    MapOf(<<Field("event_id", Str(UuidText)),
            Field("breadcrumbs",
                  MapOf(<<Field("values",
                                SeqOf(<<MapOf(<<Field("timestamp",
                                                      Str(TimestampText))>>)>>))>>))>>)

ScenarioB ==
    MapOf(<<Field("event_id", Str(UuidText)),
            Field("breadcrumbs",
                  MapOf(<<Field("values", SeqOf(<<Leaf("bool")>>))>>))>>)

ScenarioC ==
    MapOf(<<Field("event_id", Leaf("u64")),
            Field("breadcrumbs",
                  MapOf(<<Field("values",
                                SeqOf(<<MapOf(<<Field("timestamp",
                                                      Str(TimestampText))>>)>>))>>))>>)

----------------------------------------------------------------------------
(* The Annotated nodes of a decoded value, each with the type it was       *)
(* decoded as and the input it was decoded from (<<>> when the document    *)
(* has no entry for the field and the field default filled it).            *)

FieldInput(T, v, j) ==
    IF v.k = "map"
    THEN LET es == EntriesOf(v.items, Fields(T)[j].wire)
         IN IF Len(es) = 0 THEN <<>> ELSE <<es[1].items[2]>>
    ELSE IF j <= Len(v.items) THEN <<v.items[j]>> ELSE <<>>

RECURSIVE Nodes(_, _, _)
RECURSIVE FieldNodes(_, _, _, _)
RECURSIVE ElemNodes(_, _, _, _)

FieldNodes(T, v, x, j) ==
    IF j > Len(Fields(T)) THEN <<>>
    ELSE LET f == Fields(T)[j]
             in == FieldInput(T, v, j)
         IN (IF Len(in) = 0
             THEN << [ty |-> Inner(f.ty), input |-> <<>>, node |-> x[f.name]] >>
             ELSE Nodes(Inner(f.ty), in[1], x[f.name]))
            \o FieldNodes(T, v, x, j + 1)

ElemNodes(T, elems, xs, i) ==
    IF i > Len(elems) THEN <<>>
    ELSE Nodes(T, elems[i], xs[i]) \o ElemNodes(T, elems, xs, i + 1)

Nodes(T, v, ann) ==
    << [ty |-> T, input |-> <<v>>, node |-> ann] >>
    \o (IF Len(ann.value) = 0 THEN <<>>
        ELSE IF T \in {"Event", "Breadcrumb"}
        THEN FieldNodes(T, v, ann.value[1], 1)
        ELSE IF T = "Values"
        THEN ElemNodes("Breadcrumb", FieldInput(T, v, 1)[1].items,
                       ann.value[1].values, 1)
        ELSE <<>>)

(* The Annotated nodes of the decoded event. *)
OutNodes == IF pc = "annotated" /\ out.ok THEN Nodes("Event", doc, out.v) ELSE <<>>

Present(n) == Len(n.input) = 1
Matches(n) == Present(n) /\ Deserialize(n.ty, n.input[1]).ok
Mismatched(n) == Present(n) /\ ~Deserialize(n.ty, n.input[1]).ok
ValueIsNone(n) == Len(n.node.value) = 0

----------------------------------------------------------------------------
(* C1: a field of type Annotated<T> whose input is present and does not    *)
(* decode as T decodes to value = None with meta.errors =                  *)
(* ["unexpected <kind>"], <kind> being the tag UnexpectedType gives to the *)
(* same input, and the decode that encloses the field succeeds.            *)
C1_MismatchRecorded ==
    pc = "annotated" =>
        /\ out.ok
        /\ \A i \in 1..Len(OutNodes) :
              LET n == OutNodes[i]
              IN Mismatched(n) =>
                    /\ ValueIsNone(n)
                    /\ UnexpectedType_deserialize(n.input[1]).ok
                    /\ n.node.meta.errors =
                          << "unexpected " \o UnexpectedType_deserialize(n.input[1]).v >>
                    /\ Len(n.node.meta.original_length) = 0

(* A breadcrumb that is `false` inside a decoded event (test_foo). *)
C1_Witness ==
    /\ pc = "annotated"
    /\ doc = ScenarioB
    /\ out.ok
    /\ Len(out.v.value) = 1
    /\ out.v.value[1].breadcrumbs.value[1].values[1].meta.errors
          = <<"unexpected boolean">>
    /\ \E i \in 1..Len(OutNodes) :
          Mismatched(OutNodes[i]) /\ OutNodes[i].ty = "Breadcrumb"

----------------------------------------------------------------------------
(* C2, as stated: in a document in which every present field matches its   *)
(* declared type, every Annotated node of the decoded value (the root and  *)
(* every nested Annotated field) has value = Some(decoded value) and an    *)
(* empty meta.                                                             *)
AllPresentMatch ==
    /\ pc = "annotated"
    /\ out.ok
    /\ \A i \in 1..Len(OutNodes) : Present(OutNodes[i]) => Matches(OutNodes[i])

C2_Original ==
    AllPresentMatch =>
        \A i \in 1..Len(OutNodes) :
            /\ Len(OutNodes[i].node.value) = 1
            /\ OutNodes[i].node.meta = ValueMeta_default

(* C2, amended: in such a document every Annotated node decoded from input *)
(* that is present has value = Some(decoded value) and an empty meta, and  *)
(* every Annotated field the document has no entry for has value = None    *)
(* and an empty meta.                                                      *)
C2_AllMatch ==
    AllPresentMatch =>
        \A i \in 1..Len(OutNodes) :
            LET n == OutNodes[i]
            IN /\ n.node.meta = ValueMeta_default
               /\ Present(n) =>
                     /\ Len(n.node.value) = 1
                     /\ n.node.value[1] = Deserialize(n.ty, n.input[1]).v
               /\ ~Present(n) => Len(n.node.value) = 0

(* test_foo's first document: the breadcrumb has a timestamp and neither   *)
(* ty nor category.                                                        *)
C2_Witness ==
    /\ AllPresentMatch
    /\ doc = ScenarioA
    /\ Len(OutNodes) = 7
    /\ \E i \in 1..Len(OutNodes) : ~Present(OutNodes[i])
    /\ out.v.value[1].breadcrumbs.value[1].values[1].value[1].timestamp.value
          = <<TimestampText>>

----------------------------------------------------------------------------
(* C3: changing the content of one Annotated field of a structure changes  *)
(* nothing else: the structure still decodes, and every other field        *)
(* decodes to the same value and the same meta.                            *)
ReplaceField(v, key, x) ==
    MapOf([i \in 1..Len(v.items) |->
              IF v.items[i].items[1].s = key
              THEN Entry(v.items[i].items[1], x)
              ELSE v.items[i]])

Replacements ==
    Scalars \cup {SeqOf(<<>>), MapOf(<<>>),
                  MapOf(<<Field("values", SeqOf(<<Leaf("bool")>>))>>)}

C3_SiblingsUnaffected ==
    \A i \in 1..Len(OutNodes) :
        LET n == OutNodes[i]
        IN (/\ n.ty \in {"Event", "Breadcrumb"}
            /\ Present(n)
            /\ ~ValueIsNone(n)
            /\ n.input[1].k = "map") =>
              \A j \in 1..Len(Fields(n.ty)) : \A x \in Replacements :
                  Len(FieldInput(n.ty, n.input[1], j)) = 1 =>
                     LET v2 == ReplaceField(n.input[1], Fields(n.ty)[j].wire, x)
                         s2 == Annotated_deserialize(n.ty, v2)
                     IN /\ s2.ok
                        /\ Len(s2.v.value) = 1
                        /\ s2.v.meta = n.node.meta
                        /\ \A j2 \in 1..Len(Fields(n.ty)) \ {j} :
                              s2.v.value[1][Fields(n.ty)[j2].name]
                                 = n.node.value[1][Fields(n.ty)[j2].name]

(* test_foo's last document: event_id is 42, breadcrumbs decodes as in the *)
(* first document.                                                         *)
C3_Witness ==
    /\ pc = "annotated"
    /\ doc = ScenarioC
    /\ out.ok
    /\ out.v.value[1].id.meta.errors = <<"unexpected integer">>
    /\ out.v.value[1].breadcrumbs
          = Deserialize("Annotated<Event>", ScenarioA).v.value[1].breadcrumbs
    /\ Len(out.v.value[1].breadcrumbs.value) = 1

----------------------------------------------------------------------------
(* C4: decoding an Annotated<T> from a well-formed input never fails: when *)
(* the input does not decode as T the result is an Annotated with          *)
(* value = None and a recorded error, for every T of the schema and every  *)
(* value of the document.                                                  *)
RECURSIVE SubValues(_)
RECURSIVE SubValuesOf(_, _)
SubValuesOf(elems, i) ==
    IF i > Len(elems) THEN <<>>
    ELSE SubValues(elems[i]) \o SubValuesOf(elems, i + 1)

SubValues(v) ==
    (IF v.k = "entry" THEN <<>> ELSE <<v>>) \o SubValuesOf(v.items, 1)

C4_NeverFails ==
    pc = "annotated" =>
        /\ out.ok
        /\ LET sv == SubValues(doc)
           IN \A T \in AnnotatedTypes : \A i \in 1..Len(sv) :
                 LET r == Deserialize(T, sv[i])
                 IN /\ r.ok
                    /\ ~Deserialize(Inner(T), sv[i]).ok =>
                          /\ Len(r.v.value) = 0
                          /\ Len(r.v.meta.errors) = 1

(* A root that is not an event at all (a repeated key, a scalar). *)
C4_Witness ==
    /\ pc = "annotated"
    /\ ~Deserialize("Event", doc).ok
    /\ doc.k = "map"
    /\ out.ok
    /\ Len(out.v.value) = 0
    /\ out.v.meta.errors = <<"unexpected object">>

----------------------------------------------------------------------------
(* C5, as stated: every Annotated<T> of a decoded value with value = None  *)
(* has a non-empty meta.errors, the fields filled from the field default   *)
(* included.                                                               *)
C5_Original ==
    \A i \in 1..Len(OutNodes) :
        ValueIsNone(OutNodes[i]) => Len(OutNodes[i].node.meta.errors) >= 1

(* C5, amended: every Annotated<T> decoded from input that is present in   *)
(* the document has a non-empty meta.errors when its value is None; a      *)
(* field that is absent from the document is filled from the field default *)
(* and has value = None with an empty meta.                                *)
C5_NoneHasReason ==
    \A i \in 1..Len(OutNodes) :
        LET n == OutNodes[i]
        IN /\ (Present(n) /\ ValueIsNone(n)) => Len(n.node.meta.errors) >= 1
           /\ ~Present(n) => ValueIsNone(n) /\ n.node.meta = ValueMeta_default

C5_Witness ==
    /\ pc = "annotated"
    /\ \E i \in 1..Len(OutNodes) :
          /\ Present(OutNodes[i])
          /\ ValueIsNone(OutNodes[i])
          /\ Len(OutNodes[i].node.meta.errors) = 1
    /\ \E i \in 1..Len(OutNodes) :
          ~Present(OutNodes[i]) /\ OutNodes[i].node = Annotated_default

----------------------------------------------------------------------------
(* C6: the error recorded for a mismatched Annotated field is exactly      *)
(* "unexpected " followed by the classification tag, in annotated.rs and   *)
(* in canonical.rs.                                                        *)
CanonicalIdInput ==
    IF doc.k = "map" THEN EntriesOf(doc.items, "event_id")[1].items[2]
    ELSE doc.items[1]

C6_ErrorFormat ==
    /\ \A i \in 1..Len(OutNodes) :
          LET n == OutNodes[i]
          IN Len(n.node.meta.errors) >= 1 =>
                n.node.meta.errors[1]
                   = "unexpected " \o UnexpectedType_deserialize(n.input[1]).v
    /\ (pc = "canonical" /\ out.ok) =>
          \A e \in 1..Len(out.v.id.meta.errors) :
              out.v.id.meta.errors[e]
                 = "unexpected " \o UnexpectedType_deserialize(CanonicalIdInput).v

----------------------------------------------------------------------------
(* SpecClassify: UnexpectedType::deserialize driven by an underlying       *)
(* decoder with one forward cursor.  The decoder presents the document as  *)
(* a stream of events; deserialize_any raises the visit_* method of the    *)
(* event under the cursor, and a sequence or map accessor answers          *)
(* next_element / next_entry from the events that follow.                  *)

MaxLen == 2

RECURSIVE Events(_)
RECURSIVE EventsOf(_, _)
EventsOf(elems, i) ==
    IF i > Len(elems) THEN <<>>
    ELSE Events(elems[i]) \o EventsOf(elems, i + 1)

Event(kind, text) == [k |-> kind, s |-> text]

Events(v) ==
    CASE v.k \in {"seq", "map"} ->
            <<Event(v.k, "")>> \o EventsOf(v.items, 1) \o <<Event("end", "")>>
      [] v.k \in {"some", "newtype"} -> <<Event(v.k, "")>> \o Events(v.items[1])
      [] v.k = "enum" /\ Len(v.items) > 0 ->
            <<Event(v.k, v.s)>> \o Events(v.items[1])
      [] v.k = "entry" -> Events(v.items[1]) \o Events(v.items[2])
      [] OTHER -> <<Event(v.k, v.s)>>

ScalarKinds ==
    {"bool", "i64", "u64", "f64", "char", "str", "bytes", "none", "unit"}

(* "enum": the decoder raises visit_enum.  "err": the decoder itself       *)
(* reports an error at this point of the input.                            *)
LeafKinds == ScalarKinds \cup {"enum", "err"}

ClsInner == {Leaf("bool"), Leaf("str"), Leaf("enum"), Leaf("err")}

ClsEntries(V) == {Entry(key, val) : key \in {Leaf("str"), Leaf("u64")}, val \in V}

ClsLevel1 ==
    ClsInner
    \cup {SomeOf(x) : x \in ClsInner}
    \cup {SeqOf(l) : l \in SeqsUpTo(ClsInner, MaxLen)}
    \cup {MapOf(l) : l \in SeqsUpTo(ClsEntries({Leaf("f64"), Leaf("err")}), MaxLen)}

ClsMid ==
    {Leaf("unit"), Leaf("enum"), Leaf("err"),
     SeqOf(<<>>), SeqOf(<<Leaf("bool"), Leaf("i64")>>),
     MapOf(<<Entry(Leaf("str"), SeqOf(<<Leaf("bytes")>>))>>),
     SomeOf(SeqOf(<<Leaf("char")>>)),
     NewtypeOf(MapOf(<<>>))}

ClsDocs ==
    {Leaf(kind) : kind \in LeafKinds}
    \cup {SomeOf(x) : x \in ClsLevel1}
    \cup {NewtypeOf(x) : x \in ClsLevel1}
    \cup {SomeOf(NewtypeOf(x)) : x \in ClsMid}
    \cup {SeqOf(l) : l \in SeqsUpTo(ClsMid, MaxLen)}
    \cup {MapOf(l) : l \in SeqsUpTo(ClsEntries(ClsMid) \cup
                                     {Entry(SeqOf(<<Leaf("u64")>>), MapOf(<<>>))},
                                   MaxLen)}

(* What follows the value in the input (the next sibling, or nothing). *)
Trailing == {<<>>, <<Event("bool", "")>>}

InitDecodeIdle == out = <<>>

InitClassify ==
    /\ doc \in ClsDocs
    /\ pc = "classify"
    /\ InitDecodeIdle
    /\ \E rest \in Trailing : toks = Events(doc) \o rest
    /\ pos = 1
    /\ stack = <<>>
    /\ result = <<>>
    /\ InitPathsIdle

Tok == toks[pos].k
Running == pc = "classify" /\ pos <= Len(toks)
Frame(kind, want) == [kind |-> kind, want |-> want]
Top == stack[Len(stack)]
Pop(st) == SubSeq(st, 1, Len(st) - 1)

(* The frames left open once a value has been classified: visit_some and   *)
(* visit_newtype_struct return with it, a map accessor moves from the key  *)
(* to the value (or to the next key), a sequence accessor stays.           *)
RECURSIVE AfterValue(_)
AfterValue(st) ==
    IF Len(st) = 0 THEN st
    ELSE LET top == st[Len(st)]
         IN IF top.kind \in {"some", "newtype"} THEN AfterValue(Pop(st))
            ELSE IF top.kind = "map"
            THEN [st EXCEPT ![Len(st)].want =
                     IF top.want = "key" THEN "value" ELSE "key"]
            ELSE st

(* A visit_* method returns r for the value enclosed by the frames st. *)
Returned(st, r) ==
    /\ stack' = AfterValue(st)
    /\ IF Len(AfterValue(st)) = 0
       THEN result' = r /\ pc' = "done"
       ELSE UNCHANGED <<result, pc>>

(* `?`: an error leaves every open visit_* call at once. *)
Failed(r) ==
    /\ result' = r
    /\ pc' = "done"
    /\ stack' = <<>>
    /\ UNCHANGED pos

VisitScalar ==
    /\ Running
    /\ Tok \in ScalarKinds
    /\ pos' = pos + 1
    /\ Returned(stack, UnexpectedVisitor_visit(Tok))
    /\ UNCHANGED <<doc, out, toks, pathVars>>

VisitSome ==
    /\ Running
    /\ Tok = "some"
    /\ pos' = pos + 1
    /\ stack' = Append(stack, Frame("some", ""))
    /\ UNCHANGED <<doc, out, toks, result, pc, pathVars>>

VisitNewtypeStruct ==
    /\ Running
    /\ Tok = "newtype"
    /\ pos' = pos + 1
    /\ stack' = Append(stack, Frame("newtype", ""))
    /\ UNCHANGED <<doc, out, toks, result, pc, pathVars>>

VisitSeq_NoDrain ==
    /\ Running
    /\ Tok = "seq"
    /\ pos' = pos + 1
    /\ Returned(stack, UnexpectedVisitor_visit("seq"))
    /\ UNCHANGED <<doc, out, toks, pathVars>>

VisitSeq ==
    /\ Running
    /\ Tok = "seq"
    /\ pos' = pos + 1
    /\ stack' = Append(stack, Frame("seq", ""))
    /\ UNCHANGED <<doc, out, toks, result, pc, pathVars>>

VisitMap ==
    /\ Running
    /\ Tok = "map"
    /\ pos' = pos + 1
    /\ stack' = Append(stack, Frame("map", "key"))
    /\ UNCHANGED <<doc, out, toks, result, pc, pathVars>>

(* seq.next_element()? is None: the loop of visit_seq ends. *)
NextElementNone ==
    /\ Running
    /\ Tok = "end"
    /\ Len(stack) > 0
    /\ Top.kind = "seq"
    /\ pos' = pos + 1
    /\ Returned(Pop(stack), UnexpectedVisitor_visit("seq"))
    /\ UNCHANGED <<doc, out, toks, pathVars>>

(* map.next_entry()? is None: the loop of visit_map ends. *)
NextEntryNone ==
    /\ Running
    /\ Tok = "end"
    /\ Len(stack) > 0
    /\ Top.kind = "map"
    /\ Top.want = "key"
    /\ pos' = pos + 1
    /\ Returned(Pop(stack), UnexpectedVisitor_visit("map"))
    /\ UNCHANGED <<doc, out, toks, pathVars>>

VisitEnum ==
    /\ Running
    /\ Tok = "enum"
    /\ IF UnexpectedVisitor_visit("enum").ok
       THEN pos' = pos + 1 /\ Returned(stack, UnexpectedVisitor_visit("enum"))
       ELSE Failed(UnexpectedVisitor_visit("enum"))
    /\ UNCHANGED <<doc, out, toks, pathVars>>

DecoderError ==
    /\ Running
    /\ Tok = "err"
    /\ Failed(Err("decoder error"))
    /\ UNCHANGED <<doc, out, toks, pathVars>>

NextClassify ==
    \/ VisitScalar
    \/ VisitSome
    \/ VisitNewtypeStruct
    \/ VisitSeq
    \/ VisitMap
    \/ NextElementNone
    \/ NextEntryNone
    \/ VisitEnum
    \/ DecoderError

SpecClassify == InitClassify /\ [][NextClassify]_vars

----------------------------------------------------------------------------
RECURSIVE Unwrap(_)
Unwrap(v) == IF v.k \in {"some", "newtype"} THEN Unwrap(v.items[1]) ELSE v

HasEvent(v, kinds) == \E i \in 1..Len(Events(v)) : Events(v)[i].k \in kinds

TagSet == {"boolean", "integer", "string", "null", "array", "object", "bytes"}

(* The tag the taxonomy gives to each shape. *)
ClaimedTag(kind) ==
    CASE kind = "bool" -> "boolean"
      [] kind \in {"i64", "u64", "f64"} -> "integer"
      [] kind = "str" -> "string"
      [] kind \in {"none", "unit"} -> "null"
      [] kind = "seq" -> "array"
      [] kind = "map" -> "object"
      [] kind = "bytes" -> "bytes"

(* C7: the classifier gives each shape exactly one tag of {boolean,        *)
(* integer, string, null, array, object, bytes}: boolean -> boolean;       *)
(* signed, unsigned and floating-point numbers -> integer; string ->       *)
(* string; none and unit -> null; sequence -> array; map -> object; byte   *)
(* string -> bytes; an optional or newtype wrapper gets the tag of its     *)
(* payload.                                                                *)
C7_Taxonomy ==
    (pc = "done" /\ ~HasEvent(doc, {"enum", "err"})) =>
        /\ result.ok
        /\ result.v \in TagSet
        /\ Unwrap(doc).k # "char" => result.v = ClaimedTag(Unwrap(doc).k)
        /\ doc.k \in {"some", "newtype"} =>
              result = UnexpectedType_deserialize(doc.items[1])

(* An optional around a newtype around a map. *)
C7_Witness ==
    /\ pc = "done"
    /\ doc.k = "some"
    /\ doc.items[1].k = "newtype"
    /\ Unwrap(doc).k = "map"
    /\ result = Ok("object")

----------------------------------------------------------------------------
(* C8: classifying a well-formed value always succeeds: whatever events    *)
(* the decoder presents (boolean, number, character, string, bytes,        *)
(* null/unit, optional, newtype, sequence, map, enum), at the top level or *)
(* inside a sequence or map being drained, the classifier returns a tag    *)
(* and never an error.                                                     *)
C8_AlwaysSucceeds ==
    (pc = "done" /\ ~HasEvent(doc, {"err"})) => result.ok /\ result.v \in TagSet

----------------------------------------------------------------------------
(* C9: when the classifier answers "array" or "object" it has consumed     *)
(* every event of the composite, nested children included, and the cursor  *)
(* stands on the event after the composite's end; an error the decoder     *)
(* reports while the composite is drained is returned instead of a tag.    *)
FirstFailure ==
    CHOOSE i \in 1..Len(Events(doc)) :
        /\ Events(doc)[i].k \in {"enum", "err"}
        /\ \A j \in 1..(i - 1) : Events(doc)[j].k \notin {"enum", "err"}

C9_Drained ==
    pc = "done" =>
        /\ (result.ok /\ result.v \in {"array", "object"}) =>
              /\ Unwrap(doc).k \in {"seq", "map"}
              /\ pos = Len(Events(doc)) + 1
              /\ Len(stack) = 0
        /\ HasEvent(doc, {"err"}) =>
              /\ ~result.ok
              /\ Events(doc)[FirstFailure].k = "err" =>
                    result = Err("decoder error") /\ pos = FirstFailure

(* A drained array with a composite child, followed by a sibling that is   *)
(* left for the caller.                                                    *)
C9_Witness ==
    /\ pc = "done"
    /\ doc.k = "seq"
    /\ \E i \in 1..Len(doc.items) : doc.items[i].k \in {"seq", "map", "some"}
    /\ result = Ok("array")
    /\ Len(toks) = Len(Events(doc)) + 1
    /\ pos = Len(toks)


----------------------------------------------------------------------------
(* paths.rs: the path-tracking Deserializer around a decoder, driven here  *)
(* by UnexpectedType::deserialize as the target type.                      *)
Root == <<>>
Segment(seg, index, key) == [seg |-> seg, index |-> index, key |-> key]
Path_Seq(parent, index) == Append(parent, Segment("Seq", index, ""))
Path_Map(parent, key) == Append(parent, Segment("Map", 0, key))
Path_Some_Same(parent) == parent
Path_Some(parent) == Append(parent, Segment("Some", 0, ""))
Path_NewtypeStruct(parent) == Append(parent, Segment("NewtypeStruct", 0, ""))
Path_NewtypeVariant(parent) == Append(parent, Segment("NewtypeVariant", 0, ""))

PFrame(kind, want, path, index, key, start) ==
    [kind |-> kind, want |-> want, path |-> path, index |-> index,
     key |-> key, start |-> start]

SeqAccess_new_FromOne(path, start) == PFrame("seq", "idle", path, 1, <<>>, start)

(* start: the event the wrapped accessor was opened on. *)
SeqAccess_new(path, start) == PFrame("seq", "idle", path, 0, <<>>, start)

MapAccess_new_Rooted(path, start) == PFrame("map", "key", Root, 0, <<>>, start)

MapAccess_new(path, start) == PFrame("map", "key", path, 0, <<>>, start)

PLeaves == {Leaf("bool"), Str("x"), Leaf("enum"), Leaf("err")}

PKeys ==
    {Str("a"), Str("b"), Leaf("u64"), SomeOf(Str("a")), NewtypeOf(Str("b")),
     Leaf("err")}

PEntries(K, V) == {Entry(key, val) : key \in K, val \in V}

PLevel1 ==
    PLeaves
    \cup {SomeOf(x) : x \in PLeaves}
    \cup {NewtypeOf(x) : x \in PLeaves}
    \cup {SeqOf(l) : l \in SeqsUpTo(PLeaves, MaxLen)}
    \cup {MapOf(l) : l \in SeqsUpTo(PEntries(PKeys, {Leaf("bool"), Leaf("err")}),
                                    MaxLen)}

PMid ==
    {Leaf("bool"), Leaf("err"),
     SeqOf(<<>>), SeqOf(<<Str("x"), Leaf("bool")>>),
     MapOf(<<Entry(Str("a"), SeqOf(<<Leaf("bool")>>))>>),
     SomeOf(SeqOf(<<Leaf("bool")>>))}

(* Enum values, for a target that decodes each into one of its variants. *)
PVariants ==
    {VariantOf("unit", <<>>)}
    \cup {VariantOf("newtype", <<x>>) : x \in PMid}
    \cup {VariantOf("tuple", <<SeqOf(l)>>) : l \in SeqsUpTo(PLeaves, MaxLen)}
    \cup {VariantOf("struct", <<MapOf(l)>>) :
             l \in SeqsUpTo(PEntries({Str("a"), Str("b")}, {Leaf("bool")}), MaxLen)}

(* Maps whose keys hold the characters the rendering of a path uses. *)
PDotted ==
    {MapOf(<<Entry(Str("a.b"), Leaf("bool")),
             Entry(Str("a"), MapOf(<<Entry(Str("b"), Leaf("bool"))>>))>>),
     MapOf(<<Entry(Str("."), Leaf("bool"))>>),
     MapOf(<<Entry(Str("0"), SeqOf(<<Leaf("bool")>>))>>),
     MapOf(<<Entry(Str("a"), SomeOf(Leaf("bool"))),
             Entry(Str("a.?"), Leaf("bool"))>>)}

(* An error below two containers, with more input after it at every level. *)
PDeep ==
    {SeqOf(<<MapOf(<<Entry(Str("a"),
                           SeqOf(<<Leaf("bool"), Leaf("err"), Leaf("bool")>>)),
                     Entry(Str("b"), Leaf("bool"))>>),
             Leaf("bool")>>),
     SeqOf(<<MapOf(<<Entry(Str("a"),
                           MapOf(<<Entry(Leaf("u64"), Leaf("bool")),
                                   Entry(Str("b"), Leaf("bool"))>>)),
                     Entry(Str("b"), Leaf("bool"))>>),
             Leaf("bool")>>)}

PathDocs ==
    PLevel1
    \cup PVariants
    \cup PDotted
    \cup PDeep
    \cup {SeqOf(<<x, y>>) : x \in PVariants, y \in {Leaf("bool")}}
    \cup {MapOf(<<Entry(Str("a"), x)>>) : x \in PVariants}
    \cup {SomeOf(x) : x \in PVariants}
    \cup {NewtypeOf(SomeOf(x)) : x \in PMid}
    \cup {SeqOf(l) : l \in SeqsUpTo(PMid, MaxLen)}
    \cup {MapOf(l) : l \in SeqsUpTo(PEntries({Str("a"), Str("b"), Leaf("u64")},
                                             PMid), MaxLen)}

(* Deserializer::new: the decoder is wrapped with the root path. *)
InitPaths ==
    /\ doc \in PathDocs
    /\ pc = "paths"
    /\ InitDecodeIdle
    /\ toks = Events(doc)
    /\ pos = 1
    /\ stack = <<>>
    /\ result = <<>>
    /\ cur = <<Root>>
    /\ log = <<>>
    /\ reqs = <<>>

PRunning == pc = "paths" /\ pos <= Len(toks)
AtValue == PRunning /\ Len(cur) = 1
Logged == log' = Append(log, [at |-> pos, path |-> cur[1]])

(* The accessors left open once a value has been decoded. *)
RECURSIVE PAfterValue(_)
PAfterValue(st) ==
    IF Len(st) = 0 THEN st
    ELSE LET top == st[Len(st)]
         IN IF top.kind \in {"some", "newtype", "variant"}
            THEN PAfterValue(Pop(st))
            ELSE IF top.kind = "map"
            THEN [st EXCEPT ![Len(st)].want = "key"]
            ELSE [st EXCEPT ![Len(st)].want = "idle"]

PReturned(st, r) ==
    /\ stack' = PAfterValue(st)
    /\ IF Len(PAfterValue(st)) = 0
       THEN result' = r /\ pc' = "done"
       ELSE UNCHANGED <<result, pc>>

(* `?`: the error is returned; the accessors are shown as it left them. *)
PFailed(st, r) ==
    /\ result' = r
    /\ pc' = "done"
    /\ stack' = st

(* Wrap::visit_bool .. visit_unit: forwarded to the delegate visitor. *)
Wrap_visit_scalar ==
    /\ AtValue
    /\ Tok \in ScalarKinds
    /\ Logged
    /\ pos' = pos + 1
    /\ cur' = <<>>
    /\ PReturned(stack, UnexpectedVisitor_visit(Tok))
    /\ UNCHANGED <<doc, out, toks, reqs>>

Wrap_visit_some ==
    /\ AtValue
    /\ Tok = "some"
    /\ Logged
    /\ pos' = pos + 1
    /\ cur' = <<Path_Some(cur[1])>>
    /\ stack' = Append(stack, PFrame("some", "", cur[1], 0, <<>>, pos))
    /\ UNCHANGED <<doc, out, toks, result, pc, reqs>>

Wrap_visit_newtype_struct ==
    /\ AtValue
    /\ Tok = "newtype"
    /\ Logged
    /\ pos' = pos + 1
    /\ cur' = <<Path_NewtypeStruct(cur[1])>>
    /\ stack' = Append(stack, PFrame("newtype", "", cur[1], 0, <<>>, pos))
    /\ UNCHANGED <<doc, out, toks, result, pc, reqs>>

Wrap_visit_seq ==
    /\ AtValue
    /\ Tok = "seq"
    /\ Logged
    /\ pos' = pos + 1
    /\ cur' = <<>>
    /\ stack' = Append(stack, SeqAccess_new(cur[1], pos))
    /\ UNCHANGED <<doc, out, toks, result, pc, reqs>>

Wrap_visit_map ==
    /\ AtValue
    /\ Tok = "map"
    /\ Logged
    /\ pos' = pos + 1
    /\ cur' = <<>>
    /\ stack' = Append(stack, MapAccess_new(cur[1], pos))
    /\ UNCHANGED <<doc, out, toks, result, pc, reqs>>

(* The path is built from the counter, the counter is advanced, and only   *)
(* then is the wrapped accessor asked: it yields an element (the seed is   *)
(* run on a Deserializer with the new path), is exhausted, or fails.       *)
SeqAccess_next_element_seed ==
    /\ PRunning
    /\ Len(stack) > 0
    /\ Top.kind = "seq"
    /\ Top.want = "idle"
    /\ LET path == Path_Seq(Top.path, Top.index)
           n == Len(stack)
           outcome == CASE Tok = "end" -> "none"
                        [] Tok = "err" -> "err"
                        [] OTHER -> "some"
           next == [stack EXCEPT ![n].index = Top.index + 1,
                                 ![n].want = CASE outcome = "none" -> "done"
                                               [] outcome = "err" -> "failed"
                                               [] OTHER -> "elem"]
       IN /\ reqs' = Append(reqs, [acc |-> Top.start, parent |-> Top.path,
                                   path |-> path, at |-> pos,
                                   outcome |-> outcome])
          /\ CASE outcome = "none" ->
                    /\ pos' = pos + 1
                    /\ stack' = next
                    /\ UNCHANGED <<cur, result, pc>>
               [] outcome = "err" ->
                    /\ PFailed(next, Err("decoder error"))
                    /\ UNCHANGED <<cur, pos>>
               [] OTHER ->
                    /\ cur' = <<path>>
                    /\ stack' = next
                    /\ UNCHANGED <<pos, result, pc>>
    /\ UNCHANGED <<doc, out, toks, log>>

(* UnexpectedVisitor::visit_seq: next_element was None, "array" is         *)
(* returned.                                                               *)
VisitSeq_return ==
    /\ pc = "paths"
    /\ Len(stack) > 0
    /\ Top.kind = "seq"
    /\ Top.want = "done"
    /\ PReturned(Pop(stack), UnexpectedVisitor_visit("seq"))
    /\ UNCHANGED <<doc, out, toks, pos, pathVars>>

(* The event that ends the key starting at p: a key is a scalar, possibly  *)
(* inside optional or newtype wrappers.                                    *)
RECURSIVE KeyLeaf(_)
KeyLeaf(p) == IF toks[p].k \in {"some", "newtype"} THEN KeyLeaf(p + 1) ELSE p

CaptureKey_visit_Forget(kind, text, key) == key

(* CaptureKey as a visitor: visit_str, visit_borrowed_str and visit_string *)
(* store the text in the accessor's key slot; every other visit_* leaves   *)
(* the slot alone.                                                         *)
CaptureKey_visit(kind, text, key) == IF kind = "str" THEN <<text>> ELSE key

(* The key is decoded through CaptureKey, which stores the text when the   *)
(* key's own event is a string; visit_some and visit_newtype_struct hand   *)
(* the inner decoder on without CaptureKey.                                *)
MapAccess_next_key_seed ==
    /\ PRunning
    /\ Len(stack) > 0
    /\ Top.kind = "map"
    /\ Top.want = "key"
    /\ LET n == Len(stack)
           leaf == toks[KeyLeaf(pos)].k
       IN CASE Tok = "end" ->
                    /\ pos' = pos + 1
                    /\ PReturned(Pop(stack), UnexpectedVisitor_visit("map"))
            [] Tok # "end" /\ leaf = "err" ->
                    /\ PFailed(stack, Err("decoder error"))
                    /\ pos' = KeyLeaf(pos)
            [] Tok # "end" /\ leaf = "enum" ->
                    /\ PFailed(stack, UnexpectedVisitor_visit("enum"))
                    /\ pos' = KeyLeaf(pos)
            [] OTHER ->
                    /\ pos' = KeyLeaf(pos) + 1
                    /\ stack' = [stack EXCEPT
                          ![n].key = CaptureKey_visit(Tok, toks[pos].s, @),
                          ![n].want = "value"]
                    /\ UNCHANGED <<result, pc>>
    /\ UNCHANGED <<doc, out, toks, pathVars>>

Option_take_Kept(key) == key

(* Option::take: the slot is left empty. *)
Option_take(key) == <<>>

MapAccess_key_Reject(key) == Err("non-string key")

MapAccess_key_Lenient(key) == Ok(IF Len(key) = 0 THEN "" ELSE key[1])

(* self.key.take().ok_or_else(|| E::custom("non-string key")) *)
MapAccess_key(key) ==
    IF Len(key) = 0 THEN Err("non-string key") ELSE Ok(key[1])

(* self.key()?: the captured key is taken, or the request fails. *)
MapAccess_next_value_seed ==
    /\ PRunning
    /\ Len(stack) > 0
    /\ Top.kind = "map"
    /\ Top.want = "value"
    /\ LET n == Len(stack)
           key == MapAccess_key(Top.key)
       IN IF ~key.ok
          THEN /\ PFailed(stack, key)
               /\ UNCHANGED cur
          ELSE /\ cur' = <<Path_Map(Top.path, key.v)>>
               /\ stack' = [stack EXCEPT ![n].key = Option_take(@),
                                         ![n].want = "invalue"]
               /\ UNCHANGED <<result, pc>>
    /\ UNCHANGED <<doc, out, toks, pos, log, reqs>>

(* Wrap::visit_enum for a target that decodes an enum: the target asks     *)
(* variant_seed for the variant (forwarded with the seed as it is), then   *)
(* one of the VariantAccess methods for the payload.                       *)
VariantAccess_unit_variant ==
    /\ AtValue
    /\ Tok = "enum"
    /\ toks[pos].s = "unit"
    /\ Logged
    /\ pos' = pos + 1
    /\ cur' = <<>>
    /\ PReturned(stack, Ok("unit variant"))
    /\ UNCHANGED <<doc, out, toks, reqs>>

VariantAccess_newtype_variant_seed ==
    /\ AtValue
    /\ Tok = "enum"
    /\ toks[pos].s = "newtype"
    /\ Logged
    /\ pos' = pos + 1
    /\ cur' = <<Path_NewtypeVariant(cur[1])>>
    /\ stack' = Append(stack, PFrame("variant", "", cur[1], 0, <<>>, pos))
    /\ UNCHANGED <<doc, out, toks, result, pc, reqs>>

(* The visitor of the payload is wrapped with the path of the enum. *)
VariantAccess_tuple_variant ==
    /\ AtValue
    /\ Tok = "enum"
    /\ toks[pos].s = "tuple"
    /\ Logged
    /\ pos' = pos + 1
    /\ cur' = <<cur[1]>>
    /\ stack' = Append(stack, PFrame("variant", "", cur[1], 0, <<>>, pos))
    /\ UNCHANGED <<doc, out, toks, result, pc, reqs>>

VariantAccess_struct_variant ==
    /\ AtValue
    /\ Tok = "enum"
    /\ toks[pos].s = "struct"
    /\ Logged
    /\ pos' = pos + 1
    /\ cur' = <<cur[1]>>
    /\ stack' = Append(stack, PFrame("variant", "", cur[1], 0, <<>>, pos))
    /\ UNCHANGED <<doc, out, toks, result, pc, reqs>>

(* Wrap::visit_enum for UnexpectedVisitor, which does not decode an enum. *)
Wrap_visit_enum ==
    /\ AtValue
    /\ Tok = "enum"
    /\ toks[pos].s = ""
    /\ Logged
    /\ IF UnexpectedVisitor_visit("enum").ok
       THEN /\ pos' = pos + 1
            /\ cur' = <<>>
            /\ PReturned(stack, UnexpectedVisitor_visit("enum"))
       ELSE /\ PFailed(stack, UnexpectedVisitor_visit("enum"))
            /\ UNCHANGED <<pos, cur>>
    /\ UNCHANGED <<doc, out, toks, reqs>>

Delegate_error_Swallowed ==
    /\ AtValue
    /\ Tok = "err"
    /\ Logged
    /\ pos' = pos + 1
    /\ cur' = <<>>
    /\ PReturned(stack, Ok("null"))
    /\ UNCHANGED <<doc, out, toks, reqs>>

(* The wrapped decoder fails on the value it was asked to decode. *)
Delegate_error ==
    /\ AtValue
    /\ Tok = "err"
    /\ PFailed(stack, Err("decoder error"))
    /\ UNCHANGED <<doc, out, toks, pos, pathVars>>

(* Annotated::<String>::deserialize on the path-tracking Deserializer: the *)
(* untagged Maybe<T> first buffers the whole input through it, which       *)
(* traverses the input as the run above did, and `?` returns an error of   *)
(* that traversal; the variants are then tried on the buffered input.  An  *)
(* enum event is excluded: the buffer answers it with another message.     *)
Annotated_deserialize_Tracked ==
    /\ pc = "done"
    /\ \A i \in 1..Len(toks) : toks[i].k # "enum"
    /\ pc' = "decoded"
    /\ out' = IF result.ok THEN Annotated_deserialize("String", doc) ELSE result
    /\ UNCHANGED <<doc, toks, pos, stack, result, pathVars>>

NextPaths ==
    \/ Annotated_deserialize_Tracked
    \/ Wrap_visit_scalar
    \/ Wrap_visit_some
    \/ Wrap_visit_newtype_struct
    \/ Wrap_visit_seq
    \/ Wrap_visit_map
    \/ SeqAccess_next_element_seed
    \/ VisitSeq_return
    \/ MapAccess_next_key_seed
    \/ MapAccess_next_value_seed
    \/ VariantAccess_unit_variant
    \/ VariantAccess_newtype_variant_seed
    \/ VariantAccess_tuple_variant
    \/ VariantAccess_struct_variant
    \/ Wrap_visit_enum
    \/ Delegate_error

SpecPaths == InitPaths /\ [][NextPaths]_vars

----------------------------------------------------------------------------
(* The event after the value that starts at p, read off the input. *)
RECURSIVE ValueEnd(_), ItemsEnd(_)
ValueEnd(p) ==
    CASE toks[p].k \in {"seq", "map"} -> ItemsEnd(p + 1)
      [] toks[p].k \in {"some", "newtype"} -> ValueEnd(p + 1)
      [] toks[p].k = "enum" /\ toks[p].s \in {"newtype", "tuple", "struct"} ->
            ValueEnd(p + 1)
      [] OTHER -> p + 1

ItemsEnd(p) == IF toks[p].k = "end" THEN p + 1 ELSE ItemsEnd(ValueEnd(p))

RECURSIVE NthChild(_, _)
NthChild(p, k) == IF k = 0 THEN p ELSE NthChild(ValueEnd(p), k - 1)

(* Where the k-th element (from 0) of the sequence opened at acc starts,   *)
(* or where the sequence ends if it has only k elements.                   *)
ChildStart(acc, k) == NthChild(acc + 1, k)

RequestsAt(acc, n) == {j \in 1..n : reqs[j].acc = acc}

(* C10: the k-th next-element request on a sequence accessor with path P   *)
(* (k from 0) builds the path Index{P, k}, and the element it yields, the  *)
(* k-th of the sequence, is decoded with that path; the accessor's counter *)
(* starts at 0 and is one more after every request, whether the request    *)
(* yielded an element, found the sequence exhausted, or failed.            *)
C10_SeqIndex ==
    /\ \A i \in 1..Len(reqs) :
          LET r == reqs[i]
              k == Cardinality(RequestsAt(r.acc, i - 1))
          IN /\ r.path = Path_Seq(r.parent, k)
             /\ r.at = ChildStart(r.acc, k)
             /\ \E j \in 1..Len(log) :
                   log[j].at = r.acc /\ log[j].path = r.parent
             /\ r.outcome = "some" =>
                   \/ pos = r.at /\ cur = <<r.path>>
                   \/ \E j \in 1..Len(log) :
                         log[j].at = r.at /\ log[j].path = r.path
    /\ \A d \in 1..Len(stack) :
          stack[d].kind = "seq" =>
              stack[d].index = Cardinality(RequestsAt(stack[d].start, Len(reqs)))

(* A nested sequence whose two elements were yielded at [0] and [1] and    *)
(* whose third request found it exhausted.                                 *)
C10_Witness ==
    /\ pc = "paths"
    /\ Len(stack) > 1
    /\ Top.kind = "seq"
    /\ Top.want = "done"
    /\ Top.index = 3
    /\ Len(Top.path) > 0
    /\ reqs[Len(reqs)].outcome = "none"
    /\ reqs[Len(reqs)].path = Path_Seq(Top.path, 2)

(* A request that failed after an earlier one had yielded an element. *)
SeqRequestFailed ==
    /\ pc = "done"
    /\ Len(stack) > 0
    /\ Top.kind = "seq"
    /\ Top.want = "failed"
    /\ Top.index = 2
    /\ reqs[Len(reqs)].outcome = "err"

----------------------------------------------------------------------------
(* Where the children of a composite start, the first one at p, read off   *)
(* the input: the elements of a sequence, or the keys and values of a map  *)
(* in turn.                                                                *)
RECURSIVE Children(_)
Children(p) ==
    IF toks[p].k = "end" THEN <<>> ELSE <<p>> \o Children(ValueEnd(p))

(* The path the value logged at position p was decoded with. *)
LoggedAt(p) == {log[j].path : j \in {i \in 1..Len(log) : log[i].at = p}}

(* C11: in a map at path P every value is decoded with the path           *)
(* Key{P, k}, k being the string of the key decoded by the key request     *)
(* just before that value request; the key is captured (held by the        *)
(* accessor) before the value decode starts.                               *)
C11_MapKeyPath ==
    /\ \A a \in 1..Len(log) :
          toks[log[a].at].k = "map" =>
              LET ch == Children(log[a].at + 1)
              IN \A e \in 1..(Len(ch) \div 2) :
                    \A path \in LoggedAt(ch[2 * e]) :
                        /\ toks[ch[2 * e - 1]].k = "str"
                        /\ path = Path_Map(log[a].path, toks[ch[2 * e - 1]].s)
    /\ \A d \in 1..Len(stack) :
          (stack[d].kind = "map" /\ stack[d].want = "value") =>
              LET ch == Children(stack[d].start + 1)
                  key == CHOOSE c \in 1..Len(ch) :
                            ch[c] < pos /\ \A c2 \in 1..Len(ch) : ch[c2] < pos => c2 <= c
              IN /\ key % 2 = 1
                 /\ stack[d].key =
                       IF toks[ch[key]].k = "str" THEN <<toks[ch[key]].s>> ELSE <<>>
    /\ \A d \in 1..Len(stack) :
          (stack[d].kind = "map" /\ stack[d].want = "invalue") =>
              /\ Len(stack[d].key) = 0
              /\ d = Len(stack) /\ Len(cur) = 1 =>
                    /\ cur[1][Len(cur[1])].seg = "Map"
                    /\ SubSeq(cur[1], 1, Len(cur[1]) - 1) = stack[d].path

(* Both entries of a map have been decoded, the first under its key "a",   *)
(* then the second under its own key "b", and an element inside the        *)
(* second one under Key{Root, "b"} extended by its index.                  *)
C11_Witness ==
    /\ pc = "done"
    /\ result = Ok("object")
    /\ \E i, j, n \in 1..Len(log) :
          /\ i < j
          /\ j < n
          /\ log[i].path = Path_Map(Root, "a")
          /\ log[j].path = Path_Map(Root, "b")
          /\ log[n].path = Path_Seq(Path_Map(Root, "b"), 1)

----------------------------------------------------------------------------
(* Where the keys of the maps of the input start. *)
KeyStarts ==
    {p \in 1..Len(toks) :
        \E a \in 1..Len(toks) :
            /\ toks[a].k = "map"
            /\ \E c \in 1..Len(Children(a + 1)) :
                  c % 2 = 1 /\ Children(a + 1)[c] = p}

(* The first thing to go wrong in the input is a key, starting at p, that  *)
(* is not a string: no decoder error or enum event comes before the end of *)
(* that key, and every earlier key is a string.                            *)
FailsFirstAtKey(p) ==
    /\ p \in KeyStarts
    /\ toks[p].k # "str"
    /\ \A q \in 1..(ValueEnd(p) - 1) :
          toks[q] \notin {Event("err", ""), Event("enum", "")}
    /\ \A q \in KeyStarts : q < p => toks[q].k = "str"

(* C12: a map key that does not decode as a string makes the decode        *)
(* through the middleware fail with the error "non-string key"; the error  *)
(* is the result of the whole decode call, and a decode of an Annotated    *)
(* field through the middleware returns that error instead of recording an *)
(* "unexpected <kind>" error on the field.                                 *)
C12_NonStringKey ==
    \A p \in 1..Len(toks) :
        (pc \in {"done", "decoded"} /\ FailsFirstAtKey(p)) =>
            /\ result = Err("non-string key")
            /\ pos = ValueEnd(p)
            /\ pc = "decoded" => out = Err("non-string key")

(* A map whose second key is a number: the first entry was decoded under   *)
(* its key, the second value request failed, and so did the Annotated      *)
(* decode.                                                                 *)
C12_Witness ==
    /\ pc = "decoded"
    /\ doc.k = "map"
    /\ Len(doc.items) = 2
    /\ doc.items[1].items[1] = Str("a")
    /\ doc.items[2].items[1] = Leaf("u64")
    /\ LoggedAt(3) = {Path_Map(Root, "a")}
    /\ result = Err("non-string key")
    /\ out = Err("non-string key")

----------------------------------------------------------------------------
(* Kinds of payload entered at the event at position p. *)
EntersOptional(p) == toks[p].k = "some"
EntersNewtype(p) == toks[p].k = "newtype"
EntersVariant(p, shapes) == toks[p].k = "enum" /\ toks[p].s \in shapes

UnwrapSegments == {"Some", "NewtypeStruct", "NewtypeVariant"}

(* path is parent extended by exactly one optional / unwrap segment. *)
ExtendsByUnwrap(path, parent) ==
    /\ Len(path) = Len(parent) + 1
    /\ SubSeq(path, 1, Len(parent)) = parent
    /\ path[Len(path)].seg \in UnwrapSegments

(* The path of the payload entered at log entry a: the path held before    *)
(* the payload's decode starts, then the path the payload is logged with.  *)
PayloadPaths(a) ==
    LoggedAt(log[a].at + 1)
    \cup (IF a = Len(log) /\ pos = log[a].at + 1 /\ Len(cur) = 1
          THEN {cur[1]} ELSE {})

EnteredAndHeld(a) ==
    (a = Len(log) /\ pc = "paths") => (pos = log[a].at + 1 /\ Len(cur) = 1)

(* C13 as stated: entering an optional payload, a newtype payload or the   *)
(* payload of an enum variant (newtype, tuple or struct variant) at path P *)
(* decodes the inner value with P extended by exactly one Optional or      *)
(* Unwrapped segment, the extension being made before the inner decode     *)
(* starts.                                                                 *)
C13_Original ==
    \A a \in 1..Len(log) :
        (\/ EntersOptional(log[a].at)
         \/ EntersNewtype(log[a].at)
         \/ EntersVariant(log[a].at, {"newtype", "tuple", "struct"})) =>
            /\ EnteredAndHeld(a)
            /\ \A path \in PayloadPaths(a) : ExtendsByUnwrap(path, log[a].path)

(* C13: entering an optional payload, a newtype payload or the payload of  *)
(* a newtype variant at path P decodes the inner value with P extended by  *)
(* exactly one Optional or Unwrapped segment, the extension being made     *)
(* before the inner decode starts; the payload of a tuple or struct        *)
(* variant is decoded with the path P of the enum itself, and its elements *)
(* or fields with P extended by their index or key.                        *)
C13_PayloadPath ==
    \A a \in 1..Len(log) :
        /\ (\/ EntersOptional(log[a].at)
            \/ EntersNewtype(log[a].at)
            \/ EntersVariant(log[a].at, {"newtype"})) =>
              /\ EnteredAndHeld(a)
              /\ \A path \in PayloadPaths(a) :
                    /\ ExtendsByUnwrap(path, log[a].path)
                    /\ path[Len(path)].seg =
                          CASE EntersOptional(log[a].at) -> "Some"
                            [] EntersNewtype(log[a].at) -> "NewtypeStruct"
                            [] OTHER -> "NewtypeVariant"
        /\ EntersVariant(log[a].at, {"tuple", "struct"}) =>
              /\ EnteredAndHeld(a)
              /\ \A path \in PayloadPaths(a) : path = log[a].path
              /\ LET ch == Children(log[a].at + 2)
                 IN \A c \in 1..Len(ch) :
                       \A path \in LoggedAt(ch[c]) :
                           /\ toks[log[a].at].s = "tuple" =>
                                 path = Path_Seq(log[a].path, c - 1)
                           /\ toks[log[a].at].s = "struct" =>
                                 (c % 2 = 0 /\
                                  path = Path_Map(log[a].path, toks[ch[c - 1]].s))

(* A newtype variant inside a map entry, holding an optional sequence whose *)
(* element has been decoded: one unwrap segment per payload entered.       *)
C13_Witness ==
    /\ pc = "done"
    /\ \E a \in 1..Len(log) :
          log[a].path =
              Path_Seq(Path_Some(Path_NewtypeVariant(Path_Map(Root, "a"))), 0)

(* The second element of a tuple variant inside an optional has been       *)
(* decoded.                                                                *)
TupleVariantReached ==
    /\ pc = "done"
    /\ \E a \in 1..Len(log) :
          /\ EntersVariant(log[a].at, {"tuple"})
          /\ log[a].path = Path_Some(Root)
          /\ LoggedAt(log[a].at + 3) = {Path_Seq(Path_Some(Root), 1)}

----------------------------------------------------------------------------
(* The same target decoding the same input from the underlying decoder     *)
(* directly: UnexpectedType for every value, and for an enum value a type  *)
(* that decodes the variant (a unit variant by itself, any other by        *)
(* classifying its payload).                                               *)
RECURSIVE Direct_deserialize(_)
RECURSIVE Direct_gobble(_, _)
Direct_gobble(elems, i) ==
    IF i > Len(elems) THEN Ok("")
    ELSE LET r == Direct_deserialize(elems[i])
         IN IF r.ok THEN Direct_gobble(elems, i + 1) ELSE r

Direct_deserialize(v) ==
    CASE v.k \in {"some", "newtype"} -> Direct_deserialize(v.items[1])
      [] v.k = "enum" /\ v.s = "unit" -> Ok("unit variant")
      [] v.k = "enum" /\ v.s \in {"newtype", "tuple", "struct"} ->
            Direct_deserialize(v.items[1])
      [] v.k \in {"seq", "map"} ->
            LET r == Direct_gobble(v.items, 1)
            IN IF r.ok THEN UnexpectedVisitor_visit(v.k) ELSE r
      [] v.k = "entry" ->
            LET r == Direct_deserialize(v.items[1])
            IN IF r.ok THEN Direct_deserialize(v.items[2]) ELSE r
      [] OTHER -> UnexpectedVisitor_visit(v.k)

Finished == pc \in {"done", "decoded"}

(* C14 as stated: every error a decode through the middleware returns is   *)
(* an error of the underlying decoder or of the target's decode logic (the *)
(* error the same decode returns without the middleware); the middleware   *)
(* originates none.                                                        *)
C14_Original ==
    (Finished /\ ~result.ok) => result = Direct_deserialize(doc)

(* C14: every error a decode through the middleware returns is either an   *)
(* error of the underlying decoder or of the target's decode logic (the    *)
(* error the same decode returns without the middleware), or the           *)
(* middleware's own "non-string key", returned when the value of a key     *)
(* that was not a string is requested; it originates no other error.       *)
C14_ErrorOrigin ==
    (Finished /\ ~result.ok) =>
        \/ result = Direct_deserialize(doc)
        \/ /\ result = Err("non-string key")
           /\ \E p \in 1..Len(toks) : FailsFirstAtKey(p)

(* The decoder's error on the value of the second entry of a map, both     *)
(* keys being strings, comes back unchanged.                               *)
C14_Witness ==
    /\ pc = "done"
    /\ result = Err("decoder error")
    /\ Direct_deserialize(doc) = Err("decoder error")
    /\ Len(stack) = 1
    /\ stack[1].kind = "map"
    /\ cur = <<Path_Map(Root, "b")>>
    /\ \E a \in 1..Len(log) : log[a].path = Path_Map(Root, "a")

----------------------------------------------------------------------------
(* impl de::Deserializer for Deserializer: the requests a target can make. *)
ScalarRequests ==
    {"bool", "u8", "u16", "u32", "u64", "i8", "i16", "i32", "i64", "f32",
     "f64", "char", "str", "string", "bytes", "byte_buf", "unit"}

StructuralRequests ==
    {"any", "option", "unit_struct", "newtype_struct", "seq", "tuple",
     "tuple_struct", "map", "struct", "enum"}

Requests == ScalarRequests \cup StructuralRequests \cup {"identifier", "ignored_any"}

(* deserialize_<request> on a Deserializer with the given path: the        *)
(* request made of the wrapped decoder, and the path the visitor is        *)
(* wrapped with (deserialize_ignored_any hands the visitor on as it is).   *)
Deserializer_deserialize(request, path) ==
    CASE request = "ignored_any" -> [request |-> "ignored_any", wrap |-> <<>>]
      [] request \in ScalarRequests -> [request |-> request, wrap |-> <<path>>]
      [] request \in StructuralRequests -> [request |-> request, wrap |-> <<path>>]
      [] request = "identifier" -> [request |-> "identifier", wrap |-> <<path>>]

(* Every key of the input is a string in the document, whatever the target *)
(* decodes it as (the string itself, or an optional or newtype around it). *)
DocumentKeysAreStrings == \A p \in KeyStarts : toks[KeyLeaf(p)].k = "str"

(* C15: the middleware is transparent: for every target and every document *)
(* whose map keys are all strings, the decode through the middleware has   *)
(* the same outcome (the same value, or a failure in the same cases) as    *)
(* the decode from the underlying decoder directly; a scalar, identifier   *)
(* or ignored-value request reaches the underlying decoder as the same     *)
(* kind of request and adds no segment to the path.                        *)
C15_Transparent ==
    /\ (Finished /\ DocumentKeysAreStrings) => result = Direct_deserialize(doc)
    /\ \A a \in 1..Len(log) :
          \A request \in ScalarRequests \cup {"identifier", "ignored_any"} :
              LET f == Deserializer_deserialize(request, log[a].path)
              IN /\ f.request = request
                 /\ \A i \in 1..Len(f.wrap) : f.wrap[i] = log[a].path

(* What does hold: when the own event of every key is a string, the        *)
(* outcome is that of the direct decode.                                   *)
TransparentForStringEvents ==
    (Finished /\ \A p \in KeyStarts : toks[p].k = "str") =>
        result = Direct_deserialize(doc)

----------------------------------------------------------------------------
(* impl Display for Path. *)
Digit == <<"0", "1", "2", "3", "4", "5", "6", "7", "8", "9">>

(* `{}` of a usize. *)
RECURSIVE Decimal(_)
Decimal(n) ==
    IF n < 10 THEN Digit[n + 1] ELSE Decimal(n \div 10) \o Digit[(n % 10) + 1]

ParentOf(path) == SubSeq(path, 1, Len(path) - 1)

Parent_fmt_Always(path, text) == text \o "."

(* impl Display for Parent: nothing for Path::Root, else "{path}." with    *)
(* text the rendering of the path.                                         *)
Parent_fmt(path, text) == IF Len(path) = 0 THEN "" ELSE text \o "."

Unwrap_fmt_Suffix(parent, text) ==
    IF Len(parent) = 0 THEN "?" ELSE text \o "?"

(* Path::Some | Path::NewtypeStruct | Path::NewtypeVariant:                *)
(* write!(formatter, "{}?", Parent(parent))                                *)
Unwrap_fmt(parent, text) == Parent_fmt(parent, text) \o "?"

RECURSIVE Path_fmt(_)
Path_fmt(path) ==
    IF Len(path) = 0 THEN "."
    ELSE LET last == path[Len(path)]
             parent == ParentOf(path)
             text == IF Len(parent) = 0 THEN "." ELSE Path_fmt(parent)
         IN CASE last.seg = "Seq" -> Parent_fmt(parent, text) \o Decimal(last.index)
              [] last.seg = "Map" -> Parent_fmt(parent, text) \o last.key
              [] last.seg \in UnwrapSegments -> Unwrap_fmt(parent, text)

(* The path string grammar for index and key segments: the segments from   *)
(* the root down, joined by ".".                                           *)
RECURSIVE Joined(_, _)
Joined(path, i) ==
    IF i > Len(path) THEN ""
    ELSE (IF path[i].seg = "Seq" THEN Decimal(path[i].index) ELSE path[i].key)
         \o (IF i < Len(path) THEN "." ELSE "")
         \o Joined(path, i + 1)

OnlyIndexAndKey(path) ==
    \A i \in 1..Len(path) : path[i].seg \in {"Seq", "Map"}

(* Every path the decode has handed out so far. *)
PathsReached ==
    {log[a].path : a \in 1..Len(log)}
    \cup {cur[i] : i \in 1..Len(cur)}
    \cup {reqs[r].path : r \in 1..Len(reqs)}

(* C16: the root alone renders as "."; any other path made of index and    *)
(* key segments renders as its segments in root-to-leaf order joined by    *)
(* ".", without a leading or trailing separator, a sequence segment as its *)
(* decimal index and a map segment as the literal key; for example key     *)
(* breadcrumbs, key values, index 0, key timestamp renders as              *)
(* "breadcrumbs.values.0.timestamp".                                       *)
C16_Rendering ==
    /\ Path_fmt(Root) = "."
    /\ \A path \in PathsReached :
          (OnlyIndexAndKey(path) /\ Len(path) > 0) =>
              Path_fmt(path) = Joined(path, 1)
    /\ Path_fmt(Path_Map(Path_Seq(Path_Map(Path_Map(Root, "breadcrumbs"),
                                           "values"), 0), "timestamp"))
          = "breadcrumbs.values.0.timestamp"
    /\ Path_fmt(Path_Seq(Path_Map(Root, "values"), 12)) = "values.12"

(* The decode has reached element 0 of the sequence under key "a" of the   *)
(* map under key "b", which renders as "b.a.0".                            *)
C16_Witness ==
    /\ pc = "done"
    /\ \E path \in PathsReached :
          /\ path = Path_Seq(Path_Map(Path_Map(Root, "b"), "a"), 0)
          /\ Path_fmt(path) = "b.a.0"

----------------------------------------------------------------------------
EndsInUnwrap(path) == Len(path) > 0 /\ path[Len(path)].seg \in UnwrapSegments

(* C17 as stated: an optional or unwrap segment renders as the rendering   *)
(* of its parent with a "?" appended to it, for every parent path, root or *)
(* not.                                                                    *)
C17_Original ==
    \A path \in PathsReached :
        EndsInUnwrap(path) => Path_fmt(path) = Path_fmt(ParentOf(path)) \o "?"

(* C17: an optional or unwrap segment renders as a segment "?" of its own: *)
(* under the root the path renders as "?", under any other parent as the   *)
(* rendering of the parent, the separator "." and "?".                     *)
C17_UnwrapRendering ==
    \A path \in PathsReached :
        EndsInUnwrap(path) =>
            Path_fmt(path) =
                IF Len(ParentOf(path)) = 0 THEN "?"
                ELSE Path_fmt(ParentOf(path)) \o ".?"

(* An optional under key "a", and the element of the sequence it holds.    *)
C17_Witness ==
    /\ pc = "done"
    /\ \E path \in PathsReached :
          /\ path = Path_Some(Path_Map(Root, "a"))
          /\ Path_fmt(path) = "a.?"
    /\ \E path \in PathsReached :
          /\ path = Path_Seq(Path_Some(Path_Map(Root, "a")), 0)
          /\ Path_fmt(path) = "a.?.0"

----------------------------------------------------------------------------
(* The positions of the document decoded so far. *)
PositionsDecoded == {log[a].path : a \in 1..Len(log)}

(* C18: rendering is injective over the positions of one document: two     *)
(* distinct positions (distinct chains of index, key, optional and unwrap  *)
(* segments) of the same document never render to the same string; this    *)
(* includes a map key against a sequence index with the same digits, a key *)
(* that contains "." against a nested chain of keys, and the root against  *)
(* its children.                                                           *)
C18_Injective ==
    \A p1, p2 \in PositionsDecoded :
        p1 # p2 => Path_fmt(p1) # Path_fmt(p2)

----------------------------------------------------------------------------
(* C19: every Annotated<T> a decode produces, its value present or absent, *)
(* carries the rendered path of the position of the document it was        *)
(* decoded from (the path the middleware holds when the decode of that     *)
(* field starts; here the root, ".").                                      *)
C19_CarriesPath ==
    (pc = "decoded" /\ out.ok) =>
        /\ "path" \in DOMAIN out.v
        /\ out.v.path = <<Path_fmt(log[1].path)>>

----------------------------------------------------------------------------
(* annotated.rs: the metadata side-table.  EventMeta is a                  *)
(* BTreeMap<String, ValueMeta>, decoded from the "metadata" entry of a     *)
(* document (EventMetaHelper).  A table is a function from its keys.       *)
MaxLength == 12
MaxDepth == 3

Num(text) == [k |-> "u64", s |-> text, items |-> <<>>]

(* The u64 a number of the document is parsed to. *)
Undecimal(text) == CHOOSE n \in 0..MaxLength : Decimal(n) = text

(* errors: Vec<ValueError>, ValueError = String *)
VecString_deserialize(v) ==
    IF v.k = "seq" /\ \A i \in 1..Len(v.items) : v.items[i].k = "str"
    THEN Ok([i \in 1..Len(v.items) |-> v.items[i].s])
    ELSE Err("invalid type")

(* original_length: Option<u64> *)
OptionU64_deserialize(v) ==
    CASE v.k \in {"unit", "none"} -> Ok(<<>>)
      [] v.k = "u64" -> Ok(<<Undecimal(v.s)>>)
      [] v.k = "some" /\ v.items[1].k = "u64" -> Ok(<<Undecimal(v.items[1].s)>>)
      [] OTHER -> Err("invalid type")

ValueMeta_build(e, l) ==
    IF ~e.ok THEN e
    ELSE IF ~l.ok THEN l
    ELSE Ok([errors |-> e.v, original_length |-> l.v])

(* #[derive(Deserialize)] struct ValueMeta: errors is required, an absent  *)
(* original_length is None.                                                *)
ValueMeta_deserialize(v) ==
    IF v.k = "map"
    THEN LET errs == EntriesOf(v.items, "errors")
             lens == EntriesOf(v.items, "original_length")
         IN IF Len(errs) > 1 \/ Len(lens) > 1 THEN Err("duplicate field")
            ELSE IF Len(errs) = 0 THEN Err("missing field")
            ELSE ValueMeta_build(
                     VecString_deserialize(errs[1].items[2]),
                     IF Len(lens) = 0 THEN Ok(<<>>)
                     ELSE OptionU64_deserialize(lens[1].items[2]))
    ELSE IF v.k = "seq"
    THEN IF Len(v.items) # 2 THEN Err("invalid length")
         ELSE ValueMeta_build(VecString_deserialize(v.items[1]),
                              OptionU64_deserialize(v.items[2]))
    ELSE Err("invalid type")

BTreeMap_put(table, key, meta) ==
    [k \in (DOMAIN table) \cup {key} |-> IF k = key THEN meta ELSE table[k]]

BTreeMap_insert_Dotted(table, key, meta) == BTreeMap_put(table, "." \o key, meta)

(* BTreeMap::insert: a key already in the table gets the new value. *)
BTreeMap_insert(table, key, meta) == BTreeMap_put(table, key, meta)

(* Map<String, ValueMeta>: the entries in document order. *)
RECURSIVE EventMeta_visit_map(_, _, _)
EventMeta_visit_map(entries, i, table) ==
    IF i > Len(entries) THEN Ok(table)
    ELSE IF entries[i].items[1].k # "str" THEN Err("invalid type")
    ELSE LET r == ValueMeta_deserialize(entries[i].items[2])
         IN IF r.ok
            THEN EventMeta_visit_map(entries, i + 1,
                     BTreeMap_insert(table, entries[i].items[1].s, r.v))
            ELSE r

EventMeta_deserialize(v) ==
    IF v.k = "map" THEN EventMeta_visit_map(v.items, 1, <<>>)
    ELSE Err("invalid type")

(* #[derive(Deserialize)] struct EventMetaHelper { metadata: EventMeta } *)
EventMetaHelper_deserialize(v) ==
    IF v.k = "map"
    THEN LET ms == EntriesOf(v.items, "metadata")
         IN IF Len(ms) = 0 THEN Err("missing field")
            ELSE IF Len(ms) > 1 THEN Err("duplicate field")
            ELSE LET r == EventMeta_deserialize(ms[1].items[2])
                 IN IF r.ok THEN Ok([metadata |-> r.v]) ELSE r
    ELSE IF v.k = "seq"
    THEN IF Len(v.items) # 1 THEN Err("invalid length")
         ELSE LET r == EventMeta_deserialize(v.items[1])
              IN IF r.ok THEN Ok([metadata |-> r.v]) ELSE r
    ELSE Err("invalid type")

(* BTreeMap::get *)
EventMeta_get(table, key) ==
    IF key \in DOMAIN table THEN <<table[key]>> ELSE <<>>

(* Side documents: the content of one is a list of keys with their         *)
(* records, written out as test_foo writes its metadata.                   *)
MetaDocument(meta) ==
    MapOf(<<Field("errors",
                  SeqOf([i \in 1..Len(meta.errors) |-> Str(meta.errors[i])]))>>
          \o (IF Len(meta.original_length) = 0 THEN <<>>
              ELSE <<Field("original_length",
                           Num(Decimal(meta.original_length[1])))>>))

SideDocument(side) ==
    MapOf(<<Field("event_id", Str(UuidText)),
            Field("metadata",
                  MapOf([i \in 1..Len(side) |->
                            Entry(Str(side[i].key), MetaDocument(side[i].meta))]))>>)

SideMetas ==
    {[errors |-> <<"original error">>, original_length |-> <<>>],
     [errors |-> <<>>, original_length |-> <<3>>],
     [errors |-> <<"original error", "unexpected boolean">>,
      original_length |-> <<MaxLength>>]}

OtherMeta == [errors |-> <<"other">>, original_length |-> <<1>>]

(* The side documents with an entry at the rendering of path: alone, after *)
(* the entry of test_foo, or after an earlier entry with the same key.     *)
Sides(path) ==
    LET r == Path_fmt(path)
    IN {<<[key |-> r, meta |-> m]>> : m \in SideMetas}
       \cup {<<[key |-> "breadcrumbs.values.0", meta |-> OtherMeta],
               [key |-> r, meta |-> m]>> : m \in SideMetas}
       \cup {<<[key |-> r, meta |-> OtherMeta], [key |-> r, meta |-> m]>> :
                m \in SideMetas}

MetaSegments ==
    {Segment("Seq", 0, ""), Segment("Seq", 12, ""), Segment("Some", 0, ""),
     Segment("Map", 0, "breadcrumbs"), Segment("Map", 0, "values")}

(* A position of a document, and a side document with an entry for it. *)
InitMeta ==
    /\ \E path \in SeqsUpTo(MetaSegments, MaxDepth) :
          /\ cur = <<path>>
          /\ \E side \in Sides(path) : doc = SideDocument(side)
    /\ pc = "meta"
    /\ InitDecodeIdle
    /\ toks = <<>>
    /\ pos = 0
    /\ stack = <<>>
    /\ result = <<>>
    /\ log = <<>>
    /\ reqs = <<>>

(* serde_json::from_str::<EventMetaHelper>(json) *)
ParseSideTable ==
    /\ pc = "meta"
    /\ pc' = "parsed"
    /\ out' = EventMetaHelper_deserialize(doc)
    /\ UNCHANGED <<doc, clsVars>>

(* The table is looked up with the rendering of the position. *)
LookupSideTable ==
    /\ pc = "parsed"
    /\ out.ok
    /\ pc' = "found"
    /\ result' = EventMeta_get(out.v.metadata, Path_fmt(cur[1]))
    /\ UNCHANGED <<doc, out, toks, pos, stack, pathVars>>

NextMeta == ParseSideTable \/ LookupSideTable

SpecMeta == InitMeta /\ [][NextMeta]_vars

DistinctKeys(side) ==
    \A i, j \in 1..Len(side) : side[i].key = side[j].key => i = j

(* C20: for every position, a side-table parsed from a side document (a    *)
(* mapping) that has an entry keyed by the string the position renders to  *)
(* returns exactly that entry's errors and original length when it is      *)
(* looked up with the rendered path, and the parsed table holds exactly    *)
(* the entries of the side document.                                       *)
C20_RoundTrip ==
    pc \in {"parsed", "found"} =>
        \A side \in Sides(cur[1]) :
            (doc = SideDocument(side) /\ DistinctKeys(side)) =>
                /\ out.ok
                /\ DOMAIN out.v.metadata = {side[i].key : i \in 1..Len(side)}
                /\ \A i \in 1..Len(side) :
                      out.v.metadata[side[i].key] = side[i].meta
                /\ pc = "found" =>
                      \E i \in 1..Len(side) :
                          /\ side[i].key = Path_fmt(cur[1])
                          /\ result = <<side[i].meta>>

(* The position breadcrumbs / values / 12 has been looked up in a table of *)
(* two entries and its own record came back.                               *)
C20_Witness ==
    /\ pc = "found"
    /\ cur = <<Path_Seq(Path_Map(Path_Map(Root, "breadcrumbs"), "values"), 12)>>
    /\ out.ok
    /\ DOMAIN out.v.metadata = {"breadcrumbs.values.0", "breadcrumbs.values.12"}
    /\ result = <<[errors |-> <<"original error", "unexpected boolean">>,
                   original_length |-> <<MaxLength>>]>>

(* Scenario D: the side document of test_foo. *)
ScenarioD ==
    /\ pc = "found"
    /\ cur = <<Path_Seq(Path_Map(Path_Map(Root, "breadcrumbs"), "values"), 0)>>
    /\ doc = SideDocument(<<[key |-> "breadcrumbs.values.0",
                             meta |-> [errors |-> <<"original error">>,
                                       original_length |-> <<>>]]>>)
    /\ result = <<[errors |-> <<"original error">>, original_length |-> <<>>]>>

----------------------------------------------------------------------------
(* SpecPass: the third document of test_foo, read twice from the same      *)
(* text: into the event (from_str::<Annotated<Event>>) and into the        *)
(* side-table (from_str::<EventMetaHelper>).  `out` holds the event and    *)
(* `result` the table (<<>> until it has been parsed).                     *)

PassCrumbs ==
    {Leaf("bool"), Leaf("u64"),
     MapOf(<<Field("timestamp", Str(TimestampText))>>),
     MapOf(<<Field("ty", Leaf("u64"))>>)}

(* The renderings of the positions of the event. *)
PassKeys ==
    {"event_id", "breadcrumbs", "breadcrumbs.values",
     "breadcrumbs.values.0", "breadcrumbs.values.1"}

PassSides ==
    {<<[key |-> k, meta |-> m]>> : k \in PassKeys, m \in SideMetas}
    \cup {<<[key |-> "breadcrumbs.values.0", meta |-> m],
            [key |-> "event_id", meta |-> OtherMeta]>> : m \in SideMetas}

MetadataField(side) ==
    Field("metadata",
          MapOf([i \in 1..Len(side) |->
                    Entry(Str(side[i].key), MetaDocument(side[i].meta))]))

PassDocument(id, crumbs, side) ==
    MapOf(<<Field("event_id", id),
            Field("breadcrumbs", MapOf(<<Field("values", SeqOf(crumbs))>>)),
            MetadataField(side)>>)

PassDocs ==
    {PassDocument(id, crumbs, side) :
        id \in {Str(UuidText), Leaf("u64")},
        crumbs \in SeqsUpTo(PassCrumbs, MaxValues),
        side \in PassSides}

InitPass ==
    /\ doc \in PassDocs
    /\ pc = "pass"
    /\ InitDecodeIdle
    /\ InitClassifyIdle

(* let meta = serde_json::from_str::<EventMetaHelper>(json).unwrap()       *)
(*     .metadata;  before the event is decoded ("pass") or after it, as in *)
(* test_foo ("event").                                                     *)
Pass_parse_meta ==
    /\ pc \in {"pass", "event"}
    /\ result' = <<EventMetaHelper_deserialize(doc)>>
    /\ pc' = IF pc = "pass" THEN "meta" ELSE "compared"
    /\ UNCHANGED <<doc, out, toks, pos, stack, pathVars>>

(* What one decode pass leaves: the event it returns and the table, which  *)
(* is not among the things from_str is given.                              *)
DecodePass_Recording(json, table) ==
    [event |-> Deserialize("Annotated<Event>", json),
     meta |-> [i \in 1..Len(table) |->
                 IF ~table[i].ok THEN table[i]
                 ELSE Ok([metadata |->
                        [k \in DOMAIN table[i].v.metadata |->
                            [table[i].v.metadata[k] EXCEPT
                                !.errors = Append(@, "unexpected boolean")]]])]]

DecodePass(json, table) ==
    [event |-> Deserialize("Annotated<Event>", json), meta |-> table]

(* let event = serde_json::from_str::<Annotated<Event>>(json).unwrap(); *)
Pass_decode_event ==
    /\ pc \in {"pass", "meta"}
    /\ out' = DecodePass(doc, result).event
    /\ result' = DecodePass(doc, result).meta
    /\ pc' = IF pc = "pass" THEN "event" ELSE "passed"
    /\ UNCHANGED <<doc, toks, pos, stack, pathVars>>

NextPass == Pass_parse_meta \/ Pass_decode_event

SpecPass == InitPass /\ [][NextPass]_vars

(* C21: a decode pass leaves the side-table unchanged: once the document   *)
(* has been decoded and its table parsed (before the decode or after it),  *)
(* the table holds exactly the entries of the document's metadata with     *)
(* their own error lists and lengths, whatever the decode recorded; the    *)
(* "unexpected ..." error of a mismatched field is in the event only.      *)
C21_TableUnchanged ==
    pc \in {"meta", "passed", "compared"} =>
        \A side \in PassSides :
            doc.items[3] = MetadataField(side) =>
                /\ Len(result) = 1
                /\ result[1].ok
                /\ DOMAIN result[1].v.metadata = {side[i].key : i \in 1..Len(side)}
                /\ \A i \in 1..Len(side) :
                      result[1].v.metadata[side[i].key] = side[i].meta

(* test_foo's third document: the table was parsed, then the event was     *)
(* decoded; breadcrumbs.values.0 is `false`, its Annotated has the fresh   *)
(* error and the table entry at the same path has the original one.        *)
C21_Witness ==
    /\ pc = "passed"
    /\ doc = PassDocument(Str(UuidText), <<Leaf("bool")>>,
                          <<[key |-> "breadcrumbs.values.0",
                             meta |-> [errors |-> <<"original error">>,
                                       original_length |-> <<>>]]>>)
    /\ out.ok
    /\ out.v.value[1].breadcrumbs.value[1].values[1].meta.errors
          = <<"unexpected boolean">>
    /\ DOMAIN result[1].v.metadata = {"breadcrumbs.values.0"}
    /\ result[1].v.metadata["breadcrumbs.values.0"].errors = <<"original error">>

----------------------------------------------------------------------------
(* Where the structural errors of the input show: at an event on which the *)
(* underlying decoder reports an error, and at the value of a map entry    *)
(* whose key is not a string (the request for that value is rejected).     *)
StructuralPoints ==
    {p \in 1..Len(toks) : toks[p].k = "err"}
    \cup {ValueEnd(p) : p \in {q \in KeyStarts : toks[q].k # "str"}}

(* C22: a structural error (an error of the underlying decoder, or a map   *)
(* key that is not a string) at any depth makes the whole decode call      *)
(* return a failure and no value: the call returns an error message, an    *)
(* Annotated decode through the middleware returns the same error, and     *)
(* nothing of the input at or after the error has been decoded.            *)
C22_HardFailure ==
    \A e \in StructuralPoints :
        (pc \in {"paths", "done", "decoded"}) =>
            /\ pos <= e
            /\ \A i \in 1..Len(log) : log[i].at < e
            /\ \A j \in 1..Len(reqs) : reqs[j].at <= e
            /\ Finished =>
                  /\ ~result.ok
                  /\ result.v \in {"decoder error", "non-string key",
                                   UnexpectedVisitor_visit_enum.v}
            /\ pc = "decoded" => out = result

(* The decoder's error on the second element of a sequence inside a map    *)
(* inside a sequence: the call has failed, the third element, the second   *)
(* entry of the map and the second element of the outer sequence were      *)
(* never asked for.                                                        *)
C22_Witness ==
    /\ pc = "decoded"
    /\ doc = SeqOf(<<MapOf(<<Entry(Str("a"),
                                   SeqOf(<<Leaf("bool"), Leaf("err"), Leaf("bool")>>)),
                             Entry(Str("b"), Leaf("bool"))>>),
                     Leaf("bool")>>)
    /\ out = Err("decoder error")
    /\ toks[pos].k = "err"
    /\ Len(stack) = 3
    /\ Len(log) = 4
    /\ pos < Len(toks) - 5

----------------------------------------------------------------------------
(* SpecUntagged: Annotated::<T>::deserialize on a decoder with one forward *)
(* cursor, step by step.  The Deserialize derived for the untagged         *)
(* Maybe<T> first reads the whole value from the decoder into a buffer     *)
(* (serde's Content), then runs T on the buffer and, when T fails,         *)
(* UnexpectedType on the same buffer.  `stack` is the buffer, `cur` the    *)
(* type T, `reqs` the reads made so far: of the decoder (at: the event of  *)
(* the input) or of the buffer (at: the buffered event).                   *)

UTypes == {"String", "Vec<String>"}

UElems == {Str("x"), Leaf("bool"), Leaf("err"), SeqOf(<<Str("x")>>)}

UDocs ==
    {Str("x"), Leaf("bool"), Leaf("u64"), Leaf("f64"), Leaf("unit"), Leaf("err")}
    \cup {SeqOf(l) : l \in SeqsUpTo(UElems, MaxLen)}
    \cup {MapOf(l) : l \in SeqsUpTo(PEntries({Str("a")},
                                             {Str("x"), SeqOf(<<Leaf("bool")>>)}),
                                    MaxLen)}

InitUntagged ==
    /\ doc \in UDocs
    /\ pc = "buffer"
    /\ InitDecodeIdle
    /\ \E rest \in Trailing : toks = Events(doc) \o rest
    /\ pos = 1
    /\ stack = <<>>
    /\ result = <<>>
    /\ cur \in {<<T>> : T \in UTypes}
    /\ log = <<>>
    /\ reqs = <<>>

Read(src, at) == [src |-> src, at |-> at]

Content_deserialize_next_Twice(buffer, p) ==
    [buffer |-> Append(buffer, toks[p]),
     pos |-> IF Len(buffer) = 0 THEN p ELSE p + 1]

(* The buffering visitor takes the event under the cursor. *)
Content_deserialize_next(buffer, p) ==
    [buffer |-> Append(buffer, toks[p]), pos |-> p + 1]

(* let content = Content::deserialize(deserializer)?; one event a step *)
Content_deserialize ==
    /\ pc = "buffer"
    /\ reqs' = Append(reqs, Read("decoder", pos))
    /\ IF Tok = "err"
       THEN /\ result' = Err("decoder error")
            /\ out' = Err("decoder error")
            /\ pc' = "returned"
            /\ UNCHANGED <<pos, stack>>
       ELSE LET n == Content_deserialize_next(stack, pos)
            IN /\ stack' = n.buffer
               /\ pos' = n.pos
               /\ pc' = IF n.pos = ValueEnd(1) THEN "valid" ELSE "buffer"
               /\ UNCHANGED <<result, out>>
    /\ UNCHANGED <<doc, toks, cur, log>>

(* Vec<String> on the buffer: every element a string, up to the end. *)
RECURSIVE VecString_visit_seq(_, _, _)
VecString_visit_seq(buffer, i, acc) ==
    IF buffer[i].k = "end" THEN [ok |-> TRUE, v |-> acc, reads |-> i]
    ELSE IF buffer[i].k = "str"
    THEN VecString_visit_seq(buffer, i + 1, Append(acc, buffer[i].s))
    ELSE [ok |-> FALSE, v |-> "invalid type", reads |-> i]

(* T::deserialize(ContentRefDeserializer::new(&content)): the value or the *)
(* error, and how many events of the buffer T looked at.                   *)
Valid_deserialize(T, buffer) ==
    CASE T = "String" ->
            IF buffer[1].k = "str"
            THEN [ok |-> TRUE, v |-> buffer[1].s, reads |-> 1]
            ELSE [ok |-> FALSE, v |-> "invalid type", reads |-> 1]
      [] T = "Vec<String>" ->
            IF buffer[1].k = "seq"
            THEN VecString_visit_seq(buffer, 2, <<>>)
            ELSE [ok |-> FALSE, v |-> "invalid type", reads |-> 1]

(* The first variant, Valid(T), is tried on the buffer. *)
Maybe_Valid ==
    /\ pc = "valid"
    /\ LET a == Valid_deserialize(cur[1], stack)
       IN /\ reqs' = reqs \o [i \in 1..a.reads |-> Read("buffer", i)]
          /\ IF a.ok
             THEN /\ result' = Ok([variant |-> "Valid", x |-> a.v])
                  /\ out' = Ok(Annotated_from_Maybe([variant |-> "Valid", x |-> a.v]))
                  /\ pc' = "returned"
             ELSE /\ pc' = "invalid"
                  /\ UNCHANGED <<result, out>>
    /\ UNCHANGED <<doc, toks, pos, stack, cur, log>>

(* The second variant, Invalid(UnexpectedType), is tried on the same       *)
(* buffer, from its first event: the classifier goes through all of it.    *)
Maybe_Invalid ==
    /\ pc = "invalid"
    /\ reqs' = reqs \o [i \in 1..Len(stack) |-> Read("buffer", i)]
    /\ LET u == UnexpectedType_deserialize(doc)
           m == IF u.ok THEN Ok([variant |-> "Invalid", x |-> u.v])
                ELSE Err("data did not match any variant of untagged enum Maybe")
       IN /\ result' = m
          /\ out' = IF m.ok THEN Ok(Annotated_from_Maybe(m.v)) ELSE m
    /\ pc' = "returned"
    /\ UNCHANGED <<doc, toks, pos, stack, cur, log>>

NextUntagged == Content_deserialize \/ Maybe_Valid \/ Maybe_Invalid

SpecUntagged == InitUntagged /\ [][NextUntagged]_vars

UntaggedRun == pc \in {"buffer", "valid", "invalid", "returned"}
DecoderReads == SelectSeq(reqs, LAMBDA r : r.src = "decoder")
BufferReads(i) == {j \in 1..Len(reqs) : reqs[j] = Read("buffer", i)}
FellBack == pc = "returned" /\ result.ok /\ result.v.variant = "Invalid"

(* C23 as stated: every element of the document is requested from the     *)
(* underlying decoder exactly once, in document order, and no part of the  *)
(* document that was buffered is read a second time, a fallback from T to  *)
(* the classifier included.                                                *)
C23_Original ==
    UntaggedRun =>
        /\ \A k \in 1..Len(DecoderReads) : DecoderReads[k].at = k
        /\ \A i \in 1..Len(stack) : Cardinality(BufferReads(i)) <= 1

(* C23, amended: every element of the document is requested from the       *)
(* underlying decoder exactly once, in document order, and never past the  *)
(* end of the value; what is read is kept in a buffer, from which T        *)
(* decodes after the whole value has been read; when T fails the           *)
(* classifier reads the same buffer from its start, so the part T looked   *)
(* at is read from the buffer a second time (and never a third).           *)
C23_ForwardOnce ==
    UntaggedRun =>
        /\ \A k \in 1..Len(DecoderReads) : DecoderReads[k].at = k
        /\ pos = Len(stack) + 1
        /\ pos <= ValueEnd(1)
        /\ stack = SubSeq(toks, 1, Len(stack))
        /\ \A i, j \in 1..Len(reqs) :
              (reqs[i].src = "buffer" /\ reqs[j].src = "decoder") =>
                  (j < i /\ pos = ValueEnd(1))
        /\ \A i \in 1..Len(stack) : Cardinality(BufferReads(i)) <= 2
        /\ FellBack =>
              /\ \A i \in 1..Len(stack) : Cardinality(BufferReads(i)) >= 1
              /\ Cardinality(BufferReads(1)) = 2
        /\ (\E i \in 1..Len(stack) : Cardinality(BufferReads(i)) = 2) => FellBack

(* [ "x", true ] decoded as Annotated<Vec<String>>: four events read from  *)
(* the decoder, three of them looked at by Vec<String>, then all four by   *)
(* the classifier; the next value of the input has not been touched.       *)
C23_Witness ==
    /\ pc = "returned"
    /\ cur = <<"Vec<String>">>
    /\ doc = SeqOf(<<Str("x"), Leaf("bool")>>)
    /\ Len(toks) = 5
    /\ pos = 5
    /\ out = Ok(Annotated_error("unexpected array"))
    /\ Len(DecoderReads) = 4
    /\ Len(reqs) = 11
    /\ Cardinality(BufferReads(3)) = 2
    /\ Cardinality(BufferReads(4)) = 1

----------------------------------------------------------------------------
(* The values of a composite that starts at a, read off the input: the     *)
(* elements of a sequence, the values of the entries of a map.             *)
ChildValues(a) ==
    LET ch == Children(a + 1)
    IN IF toks[a].k = "seq" THEN {ch[c] : c \in 1..Len(ch)}
       ELSE {ch[c] : c \in {x \in 1..Len(ch) : x % 2 = 0}}

(* C24: descent never changes an existing path.  The decode starts at      *)
(* Root; an accessor that is open (its children being decoded, or left by  *)
(* an error) still holds the path P its container was decoded with; and    *)
(* every child of a container decoded with P is decoded with P extended by *)
(* one segment, whatever the children before it added below P.             *)
C24_PathsImmutable ==
    pc \in {"paths", "done", "decoded"} =>
        /\ Len(log) >= 1 => log[1] = [at |-> 1, path |-> Root]
        /\ \A d \in 1..Len(stack) : LoggedAt(stack[d].start) = {stack[d].path}
        /\ \A a \in 1..Len(log) :
              toks[log[a].at].k \in {"seq", "map"} =>
                  \A c \in ChildValues(log[a].at) : \A path \in LoggedAt(c) :
                      /\ Len(path) = Len(log[a].path) + 1
                      /\ ParentOf(path) = log[a].path

(* [ {"a": [true]}, true ]: the first element added Key and Index segments *)
(* below Index{Root, 0}; the second element is decoded with Index{Root, 1}.*)
C24_Witness ==
    /\ pc = "done"
    /\ doc = SeqOf(<<MapOf(<<Entry(Str("a"), SeqOf(<<Leaf("bool")>>))>>),
                     Leaf("bool")>>)
    /\ result = Ok("array")
    /\ Len(log) = 5
    /\ log[4].path = Path_Seq(Path_Map(Path_Seq(Root, 0), "a"), 0)
    /\ log[5].path = Path_Seq(Root, 1)

----------------------------------------------------------------------------
(* OutNodes lists a node before the nodes inside it: the nodes inside node *)
(* j are the ones that follow it, as many as the decoded value of j holds. *)
NodesInside(j) ==
    LET n == OutNodes[j]
    IN IF Present(n) THEN Len(Nodes(n.ty, n.input[1], n.node)) - 1 ELSE 0

Encloses(j, i) == j < i /\ i <= j + NodesInside(j)

(* C25: with nested Annotated nodes a shape mismatch is recorded at one    *)
(* node only, the innermost Annotated around the mismatched input: the     *)
(* node that holds an error has value = None, exactly one error, an input  *)
(* that does not decode as its own type and no Annotated node inside it,   *)
(* while every Annotated node that encloses it has decoded its own type,   *)
(* has its value present and has an empty error list.                      *)
C25_InnermostRecorded ==
    \A i \in 1..Len(OutNodes) :
        Len(OutNodes[i].node.meta.errors) >= 1 =>
            /\ ValueIsNone(OutNodes[i])
            /\ Len(OutNodes[i].node.meta.errors) = 1
            /\ Mismatched(OutNodes[i])
            /\ NodesInside(i) = 0
            /\ \A j \in 1..Len(OutNodes) :
                  Encloses(j, i) =>
                      /\ Matches(OutNodes[j])
                      /\ Len(OutNodes[j].node.value) = 1
                      /\ OutNodes[j].node.meta.errors = <<>>

(* {"breadcrumbs": {"values": [{"timestamp": "foo"}]}}: the error is on    *)
(* the timestamp; the breadcrumb, the values and the event around it have  *)
(* their values and no error.                                              *)
C25_Witness ==
    /\ pc = "annotated"
    /\ doc = MapOf(<<Field("breadcrumbs",
                       MapOf(<<Field("values",
                           SeqOf(<<MapOf(<<Field("timestamp",
                                                 Str(OtherText))>>)>>))>>))>>)
    /\ out.ok
    /\ \E i \in 1..Len(OutNodes) :
          /\ OutNodes[i].ty = "DateTime"
          /\ OutNodes[i].node = Annotated_error("unexpected string")
          /\ Cardinality({j \in 1..Len(OutNodes) : Encloses(j, i)}) = 3
    /\ Cardinality({i \in 1..Len(OutNodes) :
                       Len(OutNodes[i].node.meta.errors) >= 1}) = 1

----------------------------------------------------------------------------
(* SpecAccess: one MapAccess of the middleware, driven by a target that    *)
(* makes key requests and value requests in any order.  `stack` holds the  *)
(* accessor, `log` what each request of the target returned, `reqs` the    *)
(* requests the wrapped accessor received and `toks` what it answered.     *)
MaxRequests == 4

(* What the wrapped accessor presents for a key: a string, another scalar, *)
(* an optional or newtype wrapper, the end of the map, or an error.        *)
KeyAnswers ==
    {Event("str", "a"), Event("str", "b"), Event("u64", ""), Event("some", ""),
     Event("newtype", ""), Event("end", ""), Event("err", "")}

ValueAnswers == {Event("bool", ""), Event("err", "")}

AccessPaths == {Root, Path_Map(Root, "a"), Path_Seq(Root, 0)}

Returns(op, ans, r, path) == [op |-> op, ans |-> ans, r |-> r, path |-> path]
Delegated(op, at, path) == [op |-> op, at |-> at, path |-> path]

(* MapAccess::new: no key is held. *)
InitAccess ==
    /\ doc = MapOf(<<>>)
    /\ pc = "access"
    /\ InitDecodeIdle
    /\ toks = <<>>
    /\ pos = 0
    /\ stack \in {<<MapAccess_new(path, 0)>> : path \in AccessPaths}
    /\ result = <<>>
    /\ cur = <<>>
    /\ log = <<>>
    /\ reqs = <<>>

(* MapAccess::next_key_seed: the wrapped accessor is asked with CaptureKey *)
(* around the seed; the visit_* method of the key it presents runs on      *)
(* CaptureKey (none when the map is at its end or the accessor fails).     *)
Access_next_key_seed ==
    /\ pc = "access"
    /\ Len(log) < MaxRequests
    /\ \E ans \in KeyAnswers :
          /\ toks' = Append(toks, ans)
          /\ reqs' = Append(reqs, Delegated("key", Len(log) + 1, <<>>))
          /\ stack' = [stack EXCEPT ![1].key =
                          IF ans.k \in {"end", "err"} THEN @
                          ELSE CaptureKey_visit(ans.k, ans.s, @)]
          /\ log' = Append(log, Returns("key", ans,
                                        IF ans.k = "err" THEN Err("decoder error")
                                        ELSE Ok(ans.k), <<>>))
    /\ UNCHANGED <<doc, pc, out, pos, result, cur>>

(* MapAccess::next_value_seed: self.key()? first, then the wrapped         *)
(* accessor is asked with a TrackedSeed that has the path of the value.    *)
Access_next_value_seed ==
    /\ pc = "access"
    /\ Len(log) < MaxRequests
    /\ LET key == MapAccess_key(stack[1].key)
       IN IF ~key.ok
          THEN /\ log' = Append(log, Returns("value", Event("", ""), key, <<>>))
               /\ UNCHANGED <<toks, reqs>>
          ELSE \E ans \in ValueAnswers :
                  LET path == Path_Map(stack[1].path, key.v)
                  IN /\ toks' = Append(toks, ans)
                     /\ reqs' = Append(reqs, Delegated("value", Len(log) + 1,
                                                       <<path>>))
                     /\ log' = Append(log, Returns("value", ans,
                                         IF ans.k = "err" THEN Err("decoder error")
                                         ELSE Ok(ans.k), <<path>>))
    /\ stack' = [stack EXCEPT ![1].key = Option_take(@)]
    /\ UNCHANGED <<doc, pc, out, pos, result, cur>>

NextAccess == Access_next_key_seed \/ Access_next_value_seed

SpecAccess == InitAccess /\ [][NextAccess]_vars

(* The key requests before request i that presented a string, no value     *)
(* request having been made since.                                         *)
StringKeysBefore(i) ==
    {j \in 1..(i - 1) :
        /\ log[j].op = "key"
        /\ log[j].ans.k = "str"
        /\ \A v \in (j + 1)..(i - 1) : log[v].op = "key"}

Latest(S) == CHOOSE j \in S : \A j2 \in S : j2 <= j

(* C26: in a map accessor a captured key string labels at most one value.  *)
(* A value request made while a key string is held (the latest string a    *)
(* key request presented since the value request before) asks the wrapped  *)
(* accessor for the value with the path Key{P, that string}; a value       *)
(* request made while none is held (no key request before it, only key     *)
(* requests that presented no string, or a value request since the last    *)
(* string) fails with "non-string key" and the wrapped accessor is not     *)
(* asked; after a value request no key is held.                            *)
C26_KeyLabelsOnce ==
    pc = "access" =>
        /\ \A i \in 1..Len(log) :
              log[i].op = "value" =>
                  IF StringKeysBefore(i) = {}
                  THEN /\ log[i].r = Err("non-string key")
                       /\ \A q \in 1..Len(reqs) : reqs[q].at # i
                  ELSE /\ log[i].path =
                            <<Path_Map(stack[1].path,
                                       log[Latest(StringKeysBefore(i))].ans.s)>>
                       /\ \E q \in 1..Len(reqs) :
                             reqs[q] = Delegated("value", i, log[i].path)
        /\ (Len(log) > 0 /\ log[Len(log)].op = "value") => stack[1].key = <<>>
        /\ Len(toks) = Len(reqs)

(* The key "a", its value, and a second value request for the same key:    *)
(* the first value is decoded under Key{P, "a"}, the second request fails  *)
(* and the wrapped accessor has seen two requests only.                    *)
C26_Witness ==
    /\ pc = "access"
    /\ stack[1].path = Path_Seq(Root, 0)
    /\ Len(log) = 3
    /\ log[1].ans = Event("str", "a")
    /\ log[2] = Returns("value", Event("bool", ""), Ok("bool"),
                        <<Path_Map(Path_Seq(Root, 0), "a")>>)
    /\ log[3] = Returns("value", Event("", ""), Err("non-string key"), <<>>)
    /\ Len(reqs) = 2

----------------------------------------------------------------------------
(* The shapes a type of the schema is decoded from: a string for the leaf  *)
(* types, an object (or, for a derived struct, an array) for the structs.  *)
ExpectedShapes(T) ==
    IF T \in StructTypes THEN {"map", "seq"} ELSE {"str"}

(* The tag of a shape, as the claim spells it. *)
ShapeTag(kind) ==
    CASE kind = "str" -> "string"
      [] kind = "map" -> "object"
      [] kind = "seq" -> "array"

RightShapeRejected(n) ==
    /\ Present(n)
    /\ n.input[1].k \in ExpectedShapes(n.ty)
    /\ ~Deserialize(n.ty, n.input[1]).ok

(* C27: the recorded classification names the shape of the input, not the  *)
(* reason of the failure: an Annotated<T> whose input has the shape T is   *)
(* decoded from, but whose content T rejects (a string that is no uuid or  *)
(* timestamp, an object without a required field), decodes to value =      *)
(* None with the one error "unexpected " + the tag of the input's shape,   *)
(* and the decode around it succeeds.                                      *)
C27_ShapeNotReason ==
    pc = "annotated" =>
        /\ out.ok
        /\ \A i \in 1..Len(OutNodes) :
              RightShapeRejected(OutNodes[i]) =>
                  /\ ValueIsNone(OutNodes[i])
                  /\ OutNodes[i].node.meta.errors
                        = << "unexpected " \o ShapeTag(OutNodes[i].input[1].k) >>

(* {"event_id": "foo", "breadcrumbs": {}}: the id is a string that is no   *)
(* uuid, breadcrumbs is an object without "values".                        *)
C27_Witness ==
    /\ pc = "annotated"
    /\ doc = MapOf(<<Field("event_id", Str(OtherText)),
                     Field("breadcrumbs", MapOf(<<>>))>>)
    /\ out.ok
    /\ out.v.value[1].id = Annotated_error("unexpected string")
    /\ out.v.value[1].breadcrumbs = Annotated_error("unexpected object")
    /\ Cardinality({i \in 1..Len(OutNodes) : RightShapeRejected(OutNodes[i])}) = 2

====
